---- MODULE Spec2Model ----
(***************************************************************************)
(* The numerical kernels of fastTSNE (src/tsne/_tsne.pyx) as state         *)
(* machines: compute_gaussian_perplexity, compute_positive_gradients,     *)
(* compute_negative_gradients_bh / estimate_negative_gradient and the two  *)
(* FFT kernels compute_negative_gradients_fft_1d / _2d.                    *)
(*                                                                         *)
(* Numbers.  A C double is modelled in two ways:                           *)
(*   - in the FFT kernels the values are small integers, on which double   *)
(*     arithmetic (+, -, *, comparison) is exact;                          *)
(*   - in the other kernels, which divide and call exp/log, a double is a  *)
(*     fixed-point number with SCALE units per 1.0; products and quotients *)
(*     round toward zero, sign-symmetrically as IEEE arithmetic does, and  *)
(*     EPSILON (the machine epsilon) is one unit.                          *)
(***************************************************************************)
EXTENDS Integers, Sequences, FiniteSets, TLC

VARIABLES
    \* ---- FFT kernels (compute_negative_gradients_fft_1d / _2d)
    fft_dims,          \* 1: the 1-D kernel is running, 2: the 2-D kernel
    fft_embedding,     \* 1-D: <<y_1..y_N>>; 2-D: << <<x,y>>_1 .. >>
    fft_pc,            \* "scan", "fftw", "hadamard", "done"
    fft_i,             \* the loop variable i of the loop fft_pc names
    y_min, y_max,      \* 1-D: y_min, y_max; 2-D: coord_min, coord_max
    fft_w_coeffs,      \* complex vector, <<re, im>> entries
    fft_kernel_tilde,  \* complex vector, <<re, im>> entries
    fft_w_before,      \* history: fft_w_coeffs as fftw_execute(plan_dft) left it
    \* ---- compute_gaussian_perplexity
    distances,         \* distances[i][j], fixed point
    desired_perplexity,
    perplexity_tol,
    max_iter,
    perp_threads,      \* num_threads after `if num_threads < 1`
    P,                 \* P[i][j]
    beta,              \* beta[i]
    perp_todo,         \* rows the prange has not handed out yet
    perp_pc,           \* per thread: "idle", "eval", "test", "norm"
    perp_row,          \* per thread: the row i it is working on (0: none)
    iteration,         \* per thread: the loop variable `iteration`
    min_beta, max_beta, sum_Pi, entropy,   \* per thread (prange-private)
    perp_done,         \* history: rows whose body has completed
    perp_evals,        \* history, per row: entropy evaluations made
    perp_broke,        \* history, per row: the loop was left by `break`
    perp_beta_eval,    \* history, per row: beta of the last evaluation
    \* ---- the gradient kernels on one gradient buffer
    embedding,         \* embedding[i][d], fixed point
    reference_embedding,
    indices, indptr, P_data,   \* the sparse P (1-based)
    gradient,          \* gradient[i][d]
    dof, theta,
    grad_threads,      \* num_threads after `if num_threads < 1`
    should_eval_error,
    tree,              \* the quadtree built from embedding
    grad_pc,           \* "idle", "bh", "pos", "error", "crashed"
    calls,             \* the kernels that have returned, in order
    raised,            \* "none" or the exception a kernel raised
    fault,             \* "none" or "null_write": a store through NULL
    \* compute_negative_gradients_bh
    sum_Qi_ptr,        \* "unset", "ok", "null", "freed"
    sum_Qi,            \* the partial-sum array
    sum_Q,             \* the local sum_Q
    bh_state,          \* per point: "todo", "run", "done"
    bh_stack,          \* per point: the nodes (paths) still to visit
    bh_distance, bh_q, \* per point: `distance`, `q_ij` of the last summary
    bh_ret,            \* the value returned
    \* compute_positive_gradients
    pos_pc,            \* per thread: "off","malloc","idle","diff","acc","end","raised"
    pos_row, pos_k,    \* per thread: i and k
    diff_ptr,          \* per thread: "unset", "ok", "null", "freed"
    diff,              \* per thread: the scratch vector
    d_ij, q_ij,        \* per thread (private)
    sum_P, kl_divergence,      \* per thread: the reduction copies
    pos_todo, pos_done,        \* rows not handed out yet / completed
    pos_ret,           \* the tuple returned
    grad_at_call,      \* history: gradient when the running kernel was called
    \* ---- one whole call of an FFT kernel (fixed point)
    call_dims,         \* 1: compute_negative_gradients_fft_1d, 2: _fft_2d
    call_embedding,    \* call_embedding[i][d]
    call_gradient,     \* call_gradient[i][d]
    n_interpolation_points,
    min_num_intervals,
    call_pc,           \* "off","scan","boxes","kernel","assign","interp","conv",
                       \* "potentials","gradient","returned","crashed"
    coord_min, coord_max,      \* 1-D: y_min, y_max
    n_boxes,           \* 1-D: n_boxes; 2-D: n_boxes_1d
    box_width,
    call_kernel,       \* fft_kernel_tilde of this call
    point_box_ptr,     \* "unset", "ok", "null"
    point_box_idx,     \* per point and axis: the box index
    call_fault,        \* "none", "null_write", "out_of_bounds"
    interpolated_values,       \* per point and axis: the Lagrange weights
    w_coefficients,    \* per grid node: the n_terms charges
    y_tilde_values,    \* per grid node: the n_terms convolved values
    potentials,        \* per point: the n_terms potentials
    z_sum,
    call_ret,          \* <<>> or <<the value returned>>
    agg_idx, pot_idx,  \* history: grid indices used by steps 1 and 3
    \* --- the optimizer loop (spec section 4.6) ---
    negative_gradient_method,  \* "bh" or "fft"
    n_iter,            \* the number of iterations asked for
    callbacks,         \* the number of callbacks passed
    callbacks_every_iters,
    opt_pc,            \* "off", the step of the iteration, "done", "halted"
    opt_iteration,     \* the iteration being carried out, from 1
    opt_trees,         \* history: quadtrees built
    opt_negative,      \* history: negative gradient computations
    opt_positive,      \* history: positive gradient computations
    opt_updates,       \* history: embedding updates y <- y + u
    opt_recenters,     \* history: recenterings
    opt_dispatches,    \* history: what each dispatch of the callbacks saw
    iteration_count,   \* <<>> or <<the iteration count fit ends with>>
    \* --- step 2 of the FFT kernels on exact numbers ---
    conv_dims,         \* 1 or 2
    conv_nip,          \* n_interpolation_points
    conv_boxes,        \* boxes per axis
    conv_width,        \* box_width
    conv_w,            \* one term's charges, per grid node
    conv_pc,           \* "off", "kernel", "convolve", "done"
    conv_fft_kernel,   \* fft_kernel_tilde
    conv_values        \* one term's y_tilde_values

fftVars == <<fft_dims, fft_embedding, fft_pc, fft_i, y_min, y_max,
             fft_w_coeffs, fft_kernel_tilde, fft_w_before>>

perpVars == <<distances, desired_perplexity, perplexity_tol, max_iter,
              perp_threads, P, beta, perp_todo, perp_pc, perp_row, iteration,
              min_beta, max_beta, sum_Pi, entropy, perp_done, perp_evals,
              perp_broke, perp_beta_eval>>

inputVars == <<embedding, reference_embedding, indices, indptr, P_data, dof,
               theta, grad_threads, should_eval_error, tree>>

bhVars == <<sum_Qi_ptr, sum_Qi, sum_Q, bh_state, bh_stack, bh_distance, bh_q,
            bh_ret>>

posVars == <<pos_pc, pos_row, pos_k, diff_ptr, diff, d_ij, q_ij, sum_P,
             kl_divergence, pos_todo, pos_done, pos_ret>>

gradVars == <<inputVars, gradient, grad_pc, calls, raised, fault, bhVars,
              posVars, grad_at_call>>

callVars == <<call_dims, call_embedding, call_gradient,
              n_interpolation_points, min_num_intervals, call_pc, coord_min,
              coord_max, n_boxes, box_width, call_kernel, point_box_ptr,
              point_box_idx, call_fault, interpolated_values, w_coefficients,
              y_tilde_values, potentials, z_sum, call_ret, agg_idx, pot_idx>>

optVars == <<negative_gradient_method, n_iter, callbacks,
             callbacks_every_iters, opt_pc, opt_iteration, opt_trees,
             opt_negative, opt_positive, opt_updates, opt_recenters,
             opt_dispatches, iteration_count>>

convVars == <<conv_dims, conv_nip, conv_boxes, conv_width, conv_w, conv_pc,
              conv_fft_kernel, conv_values>>

vars == <<fftVars, perpVars, gradVars, callVars, optVars, convVars>>

\* what each kernel leaves alone: the state of the other kernels
notFft == <<perpVars, gradVars, callVars, optVars, convVars>>
notPerp == <<fftVars, gradVars, callVars, optVars, convVars>>
notGrad == <<fftVars, perpVars, callVars, optVars, convVars>>
notCall == <<fftVars, perpVars, gradVars, optVars, convVars>>
notOpt == <<fftVars, perpVars, gradVars, callVars, convVars>>
notConv == <<fftVars, perpVars, gradVars, callVars, optVars>>

(***************************************************************************)
(* Bounds of the model.                                                    *)
(***************************************************************************)
MaxFftPoints == 3      \* N of the FFT kernels ranges over 1..MaxFftPoints
MaxFftCoord == 2       \* FFT embedding coordinates range over 0..MaxFftCoord
MaxCoeffs == 2         \* length of the transformed vectors
SCALE == 256           \* fixed-point units per 1.0
MaxThreads == 2        \* num_threads ranges over 0..MaxThreads
MaxIter == 3           \* max_iter ranges over 1..MaxIter
LongSearch == 12       \* and a max_iter that lets the bracket close

INFINITY == 1000000000 \* math.h INFINITY: above every finite value of the model

Min(a, b) == IF a < b THEN a ELSE b
Max(a, b) == IF a > b THEN a ELSE b

RECURSIVE SeqSum(_)
SeqSum(s) == IF s = <<>> THEN 0 ELSE Head(s) + SeqSum(Tail(s))

\* All sequences over S of length lo..hi
SeqsOf(S, lo, hi) == UNION {[1..n -> S] : n \in lo..hi}

(***************************************************************************)
(* Fixed-point arithmetic: a double is an integer number of 1/SCALE units. *)
(***************************************************************************)
EPSILON == 1           \* np.finfo(np.float64).eps: the smallest increment

Abs(x) == IF x < 0 THEN -x ELSE x

\* round toward zero, sign-symmetric
TruncDiv(a, b) ==
    IF (a >= 0) = (b > 0) THEN Abs(a) \div Abs(b) ELSE -(Abs(a) \div Abs(b))

Mul(a, b) == TruncDiv(a * b, SCALE)
Div(a, b) == TruncDiv(a * SCALE, b)

\* exp(x) for x >= 0: the power series, until the terms vanish
RECURSIVE ExpSeries(_, _, _)
ExpSeries(x, term, k) ==
    IF term = 0 THEN 0
    ELSE term + ExpSeries(x, (term * x) \div (k * SCALE), k + 1)

ExpPos(x) == ExpSeries(x, SCALE, 1)

\* math.h exp(x), used for x <= 0 only; underflows to 0
Exp(x) ==
    IF x > 0 THEN ExpPos(x)
    ELSE IF -x >= 8 * SCALE THEN 0
    ELSE (SCALE * SCALE) \div ExpPos(-x)

\* the largest y in lo..hi with ExpPos(y) <= s, by bisection (ExpPos(lo) <= s)
RECURSIVE LogSearch(_, _, _)
LogSearch(s, lo, hi) ==
    IF lo >= hi THEN lo
    ELSE LET mid == (lo + hi + 1) \div 2
         IN  IF ExpPos(mid) <= s THEN LogSearch(s, mid, hi)
             ELSE LogSearch(s, lo, mid - 1)

\* math.h log(s), s > 0: the inverse of Exp
Log(s) ==
    IF s >= SCALE THEN LogSearch(s, 0, 8 * SCALE)
    ELSE -LogSearch((SCALE * SCALE) \div s, 0, 8 * SCALE)

isinf(x) == x = INFINITY \/ x = -INFINITY

(***************************************************************************)
(* IEEE 754 doubles with their non-finite values, as the FFT kernels can   *)
(* produce them: a double is a fixed-point number, INFINITY, -INFINITY or  *)
(* NAN.  Signed zeros are not distinguished.                               *)
(***************************************************************************)
NAN == 2000000000      \* a quiet NaN

IsFinite(x) == x # NAN /\ ~isinf(x)

DNeg(x) == IF x = NAN THEN NAN ELSE -x

DAdd(a, b) ==
    IF a = NAN \/ b = NAN THEN NAN
    ELSE IF isinf(a) THEN (IF isinf(b) /\ b # a THEN NAN ELSE a)
    ELSE IF isinf(b) THEN b
    ELSE a + b

DSub(a, b) == DAdd(a, DNeg(b))

\* the infinity with the sign of the product (or quotient) of a and b
SignedInfinity(a, b) == IF (a > 0) = (b > 0) THEN INFINITY ELSE -INFINITY

DMul(a, b) ==
    IF a = NAN \/ b = NAN THEN NAN
    ELSE IF isinf(a) \/ isinf(b)
    THEN (IF a = 0 \/ b = 0 THEN NAN ELSE SignedInfinity(a, b))
    ELSE Mul(a, b)

DDiv(a, b) ==
    IF a = NAN \/ b = NAN THEN NAN
    ELSE IF isinf(a) THEN (IF isinf(b) THEN NAN ELSE SignedInfinity(a, b + 1))
    ELSE IF isinf(b) THEN 0
    ELSE IF b = 0
    THEN (IF a = 0 THEN NAN ELSE SignedInfinity(a, 1))
    ELSE Div(a, b)

\* a double times / divided by a C integer n (converted to double)
DMulInt(a, n) ==
    IF a = NAN THEN NAN
    ELSE IF isinf(a) THEN (IF n = 0 THEN NAN ELSE SignedInfinity(a, n))
    ELSE a * n

DDivInt(a, n) ==
    IF a = NAN THEN NAN
    ELSE IF isinf(a) THEN SignedInfinity(a, n + 1)
    ELSE IF n = 0 THEN (IF a = 0 THEN NAN ELSE SignedInfinity(a, 1))
    ELSE TruncDiv(a, n)

\* a < b and a > b: false when either side is NaN
DLess(a, b) == a # NAN /\ b # NAN /\ a < b
DGreater(a, b) == DLess(b, a)

RECURSIVE DSum(_)
DSum(s) == IF s = <<>> THEN 0 ELSE DAdd(Head(s), DSum(Tail(s)))

\* INT_MIN and INT_MAX of a 32-bit int, out of every index range of the model
INT_MIN == -2147483647 - 1
INT_MAX == 2147483647

\* <int>x.  Converting a value that is not finite is undefined in C: x86
\* (cvttsd2si) yields INT_MIN, AArch64 (fcvtzs) saturates and maps NaN to 0.
CastInt(x) ==
    IF IsFinite(x) THEN {TruncDiv(x, SCALE)}
    ELSE IF x = NAN THEN {INT_MIN, 0}
    ELSE IF x = INFINITY THEN {INT_MIN, INT_MAX}
    ELSE {INT_MIN}

(***************************************************************************)
(* The discrete Fourier transforms FFTW computes, for the lengths 2 and 4, *)
(* where every twiddle factor is 1, -i, -1 or i and the transform is exact *)
(* on the fixed-point values.  A complex number is <<re, im>>.             *)
(***************************************************************************)
CAdd(a, b) == <<DAdd(a[1], b[1]), DAdd(a[2], b[2])>>

RECURSIVE CSum(_)
CSum(s) == IF s = <<>> THEN <<0, 0>> ELSE CAdd(Head(s), CSum(Tail(s)))

\* z * (-i)^m
Rot(z, m) ==
    CASE m % 4 = 0 -> z
      [] m % 4 = 1 -> <<z[2], DNeg(z[1])>>
      [] m % 4 = 2 -> <<DNeg(z[1]), DNeg(z[2])>>
      [] m % 4 = 3 -> <<DNeg(z[2]), z[1]>>

\* fftw_plan_dft_1d(n, ..., FFTW_FORWARD (dir = 1) or FFTW_BACKWARD (dir =
\* 3)): X[k] = sum_j x[j] * exp(-+ 2 pi i j k / n), not normalised
Dft1d(x, dir) ==
    LET n == Len(x)
    IN  [k \in 1..n |->
            CSum([j \in 1..n |-> Rot(x[j], dir * (4 \div n) * (j - 1) * (k - 1))])]

\* the full two-dimensional transform of an n x n complex array
Dft2d(x, dir) ==
    LET n == Len(x)
    IN  [k1 \in 1..n |-> [k2 \in 1..n |->
            CSum([j \in 1..(n * n) |->
                LET j1 == (j - 1) \div n
                    j2 == (j - 1) % n
                IN  Rot(x[j1 + 1][j2 + 1],
                        dir * (4 \div n) * (j1 * (k1 - 1) + j2 * (k2 - 1)))])]]

\* fftw_plan_dft_r2c_2d: the transform of a real n x n array, of which the
\* columns 0..n/2 are stored, row-major, in a vector of n * (n/2 + 1)
DftR2c2d(x) ==
    LET n == Len(x)
        h == (n \div 2) + 1
        full == Dft2d([i \in 1..n |-> [j \in 1..n |-> <<x[i][j], 0>>]], 1)
    IN  [c \in 1..(n * h) |-> full[((c - 1) \div h) + 1][((c - 1) % h) + 1]]

\* fftw_plan_dft_c2r_2d: the inverse, not normalised; the columns above
\* n/2 are the conjugates of the stored ones and the result is real
DftC2r2d(v, n) ==
    LET h == (n \div 2) + 1
        stored(k1, k2) == v[k1 * h + k2 + 1]
        full == [k1 \in 1..n |-> [k2 \in 1..n |->
                   IF k2 <= h THEN stored(k1 - 1, k2 - 1)
                   ELSE LET c == stored((n - (k1 - 1)) % n, n - (k2 - 1))
                        IN  <<c[1], DNeg(c[2])>>]]
        back == Dft2d(full, 3)
    IN  [i \in 1..n |-> [j \in 1..n |-> back[i][j][1]]]


(***************************************************************************)
(* compute_gaussian_perplexity                                             *)
(***************************************************************************)
Threads == 1..MaxThreads

\* `if num_threads < 1: num_threads = 1`
ClampThreads(n) == IF n < 1 THEN 1 ELSE n

\* distance matrices of the model, in units of 1.0 (rows are points)
DistanceInputs ==
    { <<<<1, 2>>, <<0, 3>>>>,
      <<<<2, 2>>, <<1, 3>>>>,
      <<<<1, 1>>, <<1, 2>>>>,
      <<<<0, 1, 3>>>> }

PerplexityInputs == {SCALE + SCALE \div 2, 2 * SCALE}
ToleranceInputs == {0, SCALE \div 16}

ToFixed(m) == [i \in DOMAIN m |-> [j \in DOMAIN m[i] |-> m[i][j] * SCALE]]

\* what the slots would be were the variables shared by the team
SharedSlot(t) == 1

\* Cython makes the variables assigned inside a prange body private to the
\* thread (lines 67, 72-73, 76): thread t uses slot t of each of them.
PrivateSlot(t) == t

\* lines 76-82: the row at beta b: <<P row, entropy, sum_Pi>>
RECURSIVE RowEval(_, _, _)
RowEval(drow, b, j) ==
    IF j > Len(drow) THEN <<[k \in 1..Len(drow) |-> 0], 0, EPSILON>>
    ELSE LET rest == RowEval(drow, b, j + 1)
             p == Exp(-Mul(drow[j], b))
         IN  <<[rest[1] EXCEPT ![j] = p], rest[2] + Mul(drow[j], p), rest[3] + p>>

\* line 84
Entropy(b, e, s) == Log(s) + Div(Mul(b, e), s)

\* what line 87 would be without fabs
WithinToleranceNoFabs(ediff, tol) == ediff <= tol

\* line 87
WithinTolerance(ediff, tol) == Abs(ediff) <= tol

\* what line 75 would be with one iteration too many
MoreIterationsOffByOne(it, n) == it <= n

\* line 75: `for iteration in range(max_iter)` goes on to iteration `it`
MoreIterations(it, n) == it < n

\* what lines 90-101 would be were the known bound never used
BetaUpdateUnbracketed(ediff, b, lo, hi) ==
    IF ediff > 0 THEN <<b * 2, b, hi>> ELSE <<b \div 2, lo, b>>

\* lines 90-101: <<beta, min_beta, max_beta>> after the update
BetaUpdate(ediff, b, lo, hi) ==
    IF ediff > 0
    THEN <<IF isinf(hi) THEN b * 2 ELSE (b + hi) \div 2, b, hi>>
    ELSE <<IF isinf(lo) THEN b \div 2 ELSE (b + lo) \div 2, lo, b>>

\* lines 103-104
Normalize(prow, s) == [j \in DOMAIN prow |-> Div(prow[j], s)]

NRows == Len(distances)

\* the other kernels are not running
FftIdle ==
    /\ fft_dims = 0 /\ fft_embedding = <<>> /\ fft_pc = "off" /\ fft_i = 0
    /\ y_min = 0 /\ y_max = 0
    /\ fft_w_coeffs = <<>> /\ fft_kernel_tilde = <<>> /\ fft_w_before = <<>>

GradIdle ==
    /\ embedding = <<>> /\ reference_embedding = <<>>
    /\ indices = <<>> /\ indptr = <<>> /\ P_data = <<>>
    /\ gradient = <<>> /\ dof = 0 /\ theta = 0 /\ grad_threads = 0
    /\ should_eval_error = FALSE
    /\ tree = <<>>
    /\ grad_pc = "off" /\ calls = <<>> /\ raised = "none" /\ fault = "none"
    /\ sum_Qi_ptr = "unset" /\ sum_Qi = <<>> /\ sum_Q = 0
    /\ bh_state = <<>> /\ bh_stack = <<>> /\ bh_distance = <<>> /\ bh_q = <<>>
    /\ bh_ret = 0
    /\ pos_pc = <<>> /\ pos_row = <<>> /\ pos_k = <<>>
    /\ diff_ptr = <<>> /\ diff = <<>> /\ d_ij = <<>> /\ q_ij = <<>>
    /\ sum_P = <<>> /\ kl_divergence = <<>>
    /\ pos_todo = {} /\ pos_done = {} /\ pos_ret = <<>>
    /\ grad_at_call = <<>>

CallIdle ==
    /\ call_dims = 0 /\ call_embedding = <<>> /\ call_gradient = <<>>
    /\ n_interpolation_points = 0 /\ min_num_intervals = 0
    /\ call_pc = "off"
    /\ coord_min = 0 /\ coord_max = 0 /\ n_boxes = 0 /\ box_width = 0
    /\ call_kernel = <<>>
    /\ point_box_ptr = "unset" /\ point_box_idx = <<>> /\ call_fault = "none"
    /\ interpolated_values = <<>> /\ w_coefficients = <<>>
    /\ y_tilde_values = <<>> /\ potentials = <<>>
    /\ z_sum = 0 /\ call_ret = <<>>
    /\ agg_idx = <<>> /\ pot_idx = <<>>

ConvIdle ==
    /\ conv_dims = 0 /\ conv_nip = 0 /\ conv_boxes = 0 /\ conv_width = 0
    /\ conv_w = <<>> /\ conv_pc = "off"
    /\ conv_fft_kernel = <<>> /\ conv_values = <<>>

OptIdle ==
    /\ negative_gradient_method = "none" /\ n_iter = 0 /\ callbacks = 0
    /\ callbacks_every_iters = 0 /\ opt_pc = "off" /\ opt_iteration = 0
    /\ opt_trees = 0 /\ opt_negative = 0 /\ opt_positive = 0
    /\ opt_updates = 0 /\ opt_recenters = 0
    /\ opt_dispatches = <<>> /\ iteration_count = <<>>

PerpIdle ==
    /\ distances = <<>>
    /\ desired_perplexity = 0 /\ perplexity_tol = 0 /\ max_iter = 0
    /\ perp_threads = 0
    /\ P = <<>> /\ beta = <<>>
    /\ perp_todo = {}
    /\ perp_pc = [t \in Threads |-> "idle"]
    /\ perp_row = [t \in Threads |-> 0]
    /\ iteration = [t \in Threads |-> 0]
    /\ min_beta = [t \in Threads |-> 0]
    /\ max_beta = [t \in Threads |-> 0]
    /\ sum_Pi = [t \in Threads |-> 0]
    /\ entropy = [t \in Threads |-> 0]
    /\ perp_done = {}
    /\ perp_evals = <<>> /\ perp_broke = <<>> /\ perp_beta_eval = <<>>

\* lines 58-70: the state at the prange
PerpInit ==
    /\ distances \in {ToFixed(m) : m \in DistanceInputs}
    /\ desired_perplexity \in PerplexityInputs
    /\ perplexity_tol \in ToleranceInputs
    /\ max_iter \in (1..MaxIter) \cup {LongSearch}
    /\ perp_threads \in {ClampThreads(n) : n \in 0..MaxThreads}
    /\ P = [i \in 1..NRows |-> [j \in 1..Len(distances[i]) |-> 0]]
    /\ beta = [i \in 1..NRows |-> SCALE]
    /\ perp_todo = 1..NRows
    /\ perp_pc = [t \in Threads |-> "idle"]
    /\ perp_row = [t \in Threads |-> 0]
    /\ iteration = [t \in Threads |-> 0]
    /\ min_beta = [t \in Threads |-> 0]
    /\ max_beta = [t \in Threads |-> 0]
    /\ sum_Pi = [t \in Threads |-> 0]
    /\ entropy = [t \in Threads |-> 0]
    /\ perp_done = {}
    /\ perp_evals = [i \in 1..NRows |-> 0]
    /\ perp_broke = [i \in 1..NRows |-> FALSE]
    /\ perp_beta_eval = [i \in 1..NRows |-> 0]
    /\ FftIdle
    /\ GradIdle
    /\ CallIdle
    /\ OptIdle
    /\ ConvIdle

\* line 72-73: a thread of the team takes a row and resets the bracket
PerpTakeRow(t, i) ==
    /\ t <= perp_threads /\ perp_pc[t] = "idle" /\ i \in perp_todo
    /\ perp_todo' = perp_todo \ {i}
    /\ perp_row' = [perp_row EXCEPT ![t] = i]
    /\ min_beta' = [min_beta EXCEPT ![PrivateSlot(t)] = -INFINITY]
    /\ max_beta' = [max_beta EXCEPT ![PrivateSlot(t)] = INFINITY]
    /\ iteration' = [iteration EXCEPT ![t] = 0]
    /\ perp_pc' = [perp_pc EXCEPT ![t] = "eval"]
    /\ UNCHANGED <<distances, desired_perplexity, perplexity_tol, max_iter,
                   perp_threads, P, beta, sum_Pi, entropy, perp_done,
                   perp_evals, perp_broke, perp_beta_eval>>
    /\ UNCHANGED notPerp

\* lines 76-82: the row's P, entropy sum and sum_Pi at the current beta
PerpEval(t) ==
    /\ perp_pc[t] = "eval"
    /\ LET i == perp_row[t]
           r == RowEval(distances[i], beta[i], 1)
       IN  /\ P' = [P EXCEPT ![i] = r[1]]
           /\ entropy' = [entropy EXCEPT ![PrivateSlot(t)] = r[2]]
           /\ sum_Pi' = [sum_Pi EXCEPT ![PrivateSlot(t)] = r[3]]
           /\ perp_evals' = [perp_evals EXCEPT ![i] = @ + 1]
           /\ perp_beta_eval' = [perp_beta_eval EXCEPT ![i] = beta[i]]
    /\ perp_pc' = [perp_pc EXCEPT ![t] = "test"]
    /\ UNCHANGED <<distances, desired_perplexity, perplexity_tol, max_iter,
                   perp_threads, beta, perp_todo, perp_row, iteration,
                   min_beta, max_beta, perp_done, perp_broke>>
    /\ UNCHANGED notPerp

\* lines 84-101 and the loop header: entropy, the tolerance test, the update
PerpTest(t) ==
    /\ perp_pc[t] = "test"
    /\ LET i == perp_row[t]
           s == PrivateSlot(t)
           h == Entropy(beta[i], entropy[s], sum_Pi[s])
           entropy_diff == h - Log(desired_perplexity)
           u == BetaUpdate(entropy_diff, beta[i], min_beta[s], max_beta[s])
       IN  /\ entropy' = [entropy EXCEPT ![s] = h]
           /\ IF WithinTolerance(entropy_diff, perplexity_tol)
              THEN /\ perp_pc' = [perp_pc EXCEPT ![t] = "norm"]
                   /\ perp_broke' = [perp_broke EXCEPT ![i] = TRUE]
                   /\ UNCHANGED <<beta, min_beta, max_beta, iteration>>
              ELSE /\ beta' = [beta EXCEPT ![i] = u[1]]
                   /\ min_beta' = [min_beta EXCEPT ![s] = u[2]]
                   /\ max_beta' = [max_beta EXCEPT ![s] = u[3]]
                   /\ iteration' = [iteration EXCEPT ![t] = @ + 1]
                   /\ perp_pc' = [perp_pc EXCEPT ![t] =
                          IF MoreIterations(iteration[t] + 1, max_iter)
                          THEN "eval" ELSE "norm"]
                   /\ UNCHANGED perp_broke
    /\ UNCHANGED <<distances, desired_perplexity, perplexity_tol, max_iter,
                   perp_threads, P, perp_todo, perp_row, sum_Pi, perp_done,
                   perp_evals, perp_beta_eval>>
    /\ UNCHANGED notPerp

\* lines 103-104: the row is divided by sum_Pi; the thread is free again
PerpNormalize(t) ==
    /\ perp_pc[t] = "norm"
    /\ LET i == perp_row[t]
       IN  /\ P' = [P EXCEPT ![i] = Normalize(P[i], sum_Pi[PrivateSlot(t)])]
           /\ perp_done' = perp_done \cup {i}
    /\ perp_pc' = [perp_pc EXCEPT ![t] = "idle"]
    /\ perp_row' = [perp_row EXCEPT ![t] = 0]
    /\ UNCHANGED <<distances, desired_perplexity, perplexity_tol, max_iter,
                   perp_threads, beta, perp_todo, iteration, min_beta,
                   max_beta, sum_Pi, entropy, perp_evals, perp_broke,
                   perp_beta_eval>>
    /\ UNCHANGED notPerp

PerpNext ==
    \/ \E t \in Threads, i \in 1..NRows : PerpTakeRow(t, i)
    \/ \E t \in Threads : PerpEval(t)
    \/ \E t \in Threads : PerpTest(t)
    \/ \E t \in Threads : PerpNormalize(t)

SpecPerp == PerpInit /\ [][PerpNext]_vars

(***************************************************************************)
(* The row a single worker computes for the distances drow, started at     *)
(* beta b with the bracket (lo, hi) in iteration `it`: lines 73-104 run    *)
(* without interruption.                                                   *)
(***************************************************************************)
RECURSIVE SearchRow(_, _, _, _, _)
SearchRow(drow, b, lo, hi, it) ==
    LET r == RowEval(drow, b, 1)
        ediff == Entropy(b, r[2], r[3]) - Log(desired_perplexity)
        u == BetaUpdate(ediff, b, lo, hi)
    IN  IF WithinTolerance(ediff, perplexity_tol) \/ ~MoreIterations(it + 1, max_iter)
        THEN Normalize(r[1], r[3])
        ELSE SearchRow(drow, u[1], u[2], u[3], it + 1)

\* the distribution exp(-d_ij * b) / (sum + EPSILON) of a row
DistributionAt(drow, b) ==
    LET r == RowEval(drow, b, 1) IN Normalize(r[1], r[3])

\* the entropy of a row at b
EntropyAt(drow, b) ==
    LET r == RowEval(drow, b, 1) IN Entropy(b, r[2], r[3])

(***************************************************************************)
(* C4: a row whose search loop was left by `break` has, at its beta, an    *)
(* entropy within perplexity_tol of log(desired_perplexity), and the row   *)
(* returned is the distribution at that beta divided by its sum + EPSILON. *)
(***************************************************************************)
C4_ConvergedRowWithinTolerance ==
    \A i \in perp_done :
        perp_broke[i] =>
            /\ Abs(EntropyAt(distances[i], beta[i]) - Log(desired_perplexity))
                   <= perplexity_tol
            /\ P[i] = DistributionAt(distances[i], beta[i])

\* a row that converged after moving beta, before the iterations ran out
C4_Witness ==
    \E i \in perp_done :
        /\ perp_broke[i] /\ perp_evals[i] >= 2 /\ perp_evals[i] < max_iter
        /\ beta[i] # SCALE

(***************************************************************************)
(* C8: rows are calibrated independently.  Whatever the interleaving and   *)
(* the number of threads, a finished row is the row a single worker        *)
(* computes from that row's distances and the parameters alone, and a row  *)
(* no worker has taken yet is untouched.                                   *)
(***************************************************************************)
C8_RowsIndependent ==
    \A i \in 1..NRows :
        /\ i \in perp_done =>
               P[i] = SearchRow(distances[i], SCALE, -INFINITY, INFINITY, 0)
        /\ i \in perp_todo =>
               /\ P[i] = [j \in 1..Len(distances[i]) |-> 0]
               /\ beta[i] = SCALE

\* a row finished while another thread is in the middle of another row
C8_Witness ==
    \E i \in perp_done, t \in Threads :
        /\ perp_pc[t] \in {"test", "norm"}
        /\ perp_row[t] # i
        /\ perp_evals[i] >= 2
        /\ distances[i] # distances[perp_row[t]]

RECURSIVE SqrtSearch(_, _, _)
SqrtSearch(v, lo, hi) ==
    IF lo >= hi THEN lo
    ELSE LET mid == (lo + hi + 1) \div 2
         IN  IF mid * mid <= v THEN SqrtSearch(v, mid, hi)
             ELSE SqrtSearch(v, lo, mid - 1)

Sqrt(x) == SqrtSearch(x * SCALE, 0, Max(x, SCALE))

\* x ** n for an integer n >= 1
RECURSIVE Pow(_, _)
Pow(x, n) == IF n <= 1 THEN x ELSE Mul(x, Pow(x, n - 1))

\* what lines 151-153 / 244-246 would be with the exponent (dof + 1) / 2
StudentTHalfExponent(f, dist) ==
    LET q == Div(f, f + dist)
    IN  IF f # SCALE THEN Pow(q, ((f \div SCALE) + 1) \div 2) ELSE q

\* lines 151-153 and 244-246: `q_ij ** (dof + 1) / 2` is (q_ij ** (dof + 1)) / 2
StudentT(f, dist) ==
    LET q == Div(f, f + dist)
    IN  IF f # SCALE THEN TruncDiv(Pow(q, (f \div SCALE) + 1), 2) ELSE q

NPoints == Len(embedding)
n_dims == Len(embedding[1])
Dims == 1..n_dims
ZeroVector == [d \in Dims |-> 0]
ActiveThreads == 1..grad_threads

(***************************************************************************)
(* The quadtree (module quad_tree: QuadTree, Node, is_duplicate).          *)
(***************************************************************************)
Pow2(n) == IF n = 1 THEN 2 ELSE 4

\* the child (1-based) whose region holds the point: bit d is set when the
\* point lies above the node's centre on axis d
SelectChild(center, point) ==
    1 + SeqSum([d \in DOMAIN point |->
                   IF point[d] > center[d] THEN Pow2(d) \div 2 ELSE 0])

ChildCenter(center, length, c) ==
    [d \in DOMAIN center |->
        IF ((c - 1) \div (Pow2(d) \div 2)) % 2 = 1
        THEN center[d] + length \div 4
        ELSE center[d] - length \div 4]

RECURSIVE VectorSum(_, _)
VectorSum(pts, d) ==
    IF pts = <<>> THEN 0 ELSE Head(pts)[d] + VectorSum(Tail(pts), d)

RECURSIVE PointsIn(_, _, _)
PointsIn(pts, center, c) ==
    IF pts = <<>> THEN <<>>
    ELSE IF SelectChild(center, Head(pts)) = c
         THEN <<Head(pts)>> \o PointsIn(Tail(pts), center, c)
         ELSE PointsIn(Tail(pts), center, c)

\* a node over the points pts: empty leaf, leaf of duplicates, or internal
\* node with 2^n_dims children; it carries the count and the centre of mass
RECURSIVE BuildNode(_, _, _)
BuildNode(pts, center, length) ==
    LET n == Len(pts)
        nd == Len(center)
    IN  IF n = 0
        THEN [num_points |-> 0, is_leaf |-> TRUE, length |-> length,
              center_of_mass |-> [d \in 1..nd |-> 0], children |-> <<>>]
        ELSE IF \A p \in 1..n : pts[p] = pts[1]
        THEN [num_points |-> n, is_leaf |-> TRUE, length |-> length,
              center_of_mass |-> pts[1], children |-> <<>>]
        ELSE [num_points |-> n, is_leaf |-> FALSE, length |-> length,
              center_of_mass |-> [d \in 1..nd |-> TruncDiv(VectorSum(pts, d), n)],
              children |-> [c \in 1..Pow2(nd) |->
                  BuildNode(PointsIn(pts, center, c),
                            ChildCenter(center, length, c), length \div 2)]]

RECURSIVE SeqMin(_, _)
SeqMin(pts, d) ==
    IF Len(pts) = 1 THEN pts[1][d] ELSE Min(Head(pts)[d], SeqMin(Tail(pts), d))

RECURSIVE SeqMax(_, _)
SeqMax(pts, d) ==
    IF Len(pts) = 1 THEN pts[1][d] ELSE Max(Head(pts)[d], SeqMax(Tail(pts), d))

\* QuadTree(embedding): the root covers the bounding box
BuildTree(pts) ==
    LET nd == Len(pts[1])
        center == [d \in 1..nd |-> (SeqMin(pts, d) + SeqMax(pts, d)) \div 2]
        length == IF nd = 1 THEN SeqMax(pts, 1) - SeqMin(pts, 1)
                  ELSE Max(SeqMax(pts, 1) - SeqMin(pts, 1),
                           SeqMax(pts, 2) - SeqMin(pts, 2))
    IN  BuildNode(pts, center, length)

\* is_duplicate(node, point): the point coincides with the centre of mass
is_duplicate(node, point) ==
    \A d \in DOMAIN point : Abs(node.center_of_mass[d] - point[d]) < EPSILON

RECURSIVE NodeAt(_, _)
NodeAt(node, path) ==
    IF path = <<>> THEN node
    ELSE NodeAt(node.children[Head(path)], Tail(path))

(***************************************************************************)
(* estimate_negative_gradient, one call (without the recursive calls).     *)
(***************************************************************************)
\* what line 229 would be without the test for self-interactions
SkipsEmptyOnly(node, point) == node.num_points = 0

\* line 229
Skips(node, point) ==
    node.num_points = 0 \/ (node.is_leaf /\ is_duplicate(node, point))

\* lines 233-240
NodeDistance(node, point) ==
    EPSILON + SeqSum([d \in DOMAIN point |->
                 Mul(node.center_of_mass[d] - point[d],
                     node.center_of_mass[d] - point[d])])

\* what line 243 would be were only leaves used as summaries
IsSummaryLeafOnly(node, point) == node.is_leaf

\* line 243
IsSummary(node, point) ==
    node.is_leaf \/ Div(node.length, Sqrt(NodeDistance(node, point))) < theta

\* line 247
SumQTerm(node, q) == node.num_points * q

\* line 250
GradientTerm(node, point, q, d) ==
    Mul(node.num_points * Mul(q, q), point[d] - node.center_of_mass[d])

\* the whole traversal of a subtree for one point: <<sum_Q, gradient terms>>
RECURSIVE Traverse(_, _)
RECURSIVE TraverseChildren(_, _, _)
Traverse(node, point) ==
    IF Skips(node, point) THEN <<0, [d \in DOMAIN point |-> 0]>>
    ELSE IF IsSummary(node, point)
    THEN LET q == StudentT(dof, NodeDistance(node, point))
         IN  <<SumQTerm(node, q),
               [d \in DOMAIN point |-> GradientTerm(node, point, q, d)]>>
    ELSE TraverseChildren(node, point, 1)

TraverseChildren(node, point, c) ==
    IF c > Len(node.children) THEN <<0, [d \in DOMAIN point |-> 0]>>
    ELSE LET a == Traverse(node.children[c], point)
             b == TraverseChildren(node, point, c + 1)
         IN  <<a[1] + b[1], [d \in DOMAIN point |-> a[2][d] + b[2][d]]>>

(***************************************************************************)
(* Inputs of the gradient kernels.                                         *)
(***************************************************************************)
\* embeddings, in units of 1.0: 1-D and 2-D, single, distinct and duplicate
\* points
EmbeddingInputs ==
    { <<<<1>>>>,
      <<<<1, 2>>>>,
      <<<<0>>, <<2>>>>,
      <<<<1>>, <<0>>, <<3>>>>,
      <<<<2>>, <<2>>, <<2>>>>,
      <<<<0, 0>>, <<1, 2>>>>,
      <<<<1, 1>>, <<1, 1>>>> }

\* fit: the reference embedding is the embedding itself; transform: the
\* embedding of the new points is optimised against a fixed reference
ReferenceInputs(e) ==
    {e} \cup (IF e = <<<<0>>, <<2>>>> THEN {<<<<1>>, <<3>>>>} ELSE {})

\* embeddings in fixed-point units whose points are closer to one another
\* than sqrt(EPSILON)
CloseEmbeddingInputs == { <<<<0>>, <<2>>, <<4>>>> }

ToFixedPoints(e) == [i \in DOMAIN e |-> [d \in DOMAIN e[i] |-> e[i][d] * SCALE]]

\* <<dof, theta, should_eval_error>>: the classical dof = 1 and dof = 3;
\* theta = 0 (exact), 0.5 (the default) and 2 (coarse)
ParameterInputs ==
    { <<SCALE, SCALE \div 2, FALSE>>,
      <<SCALE, 0, TRUE>>,
      <<3 * SCALE, SCALE \div 2, TRUE>>,
      <<3 * SCALE, 2 * SCALE, FALSE>> }

\* the sparse P of n points: every other point is a neighbour
NeighbourPairs(n) ==
    [k \in 1..(n * (n - 1)) |->
        LET i == 1 + ((k - 1) \div (n - 1))
            r == 1 + ((k - 1) % (n - 1))
        IN  <<i, IF r < i THEN r ELSE r + 1>>]

CsrIndices(n) == [k \in 1..(n * (n - 1)) |-> NeighbourPairs(n)[k][2]]
CsrIndptr(n) == [i \in 1..(n + 1) |-> 1 + (i - 1) * (n - 1)]
CsrData(n) == [k \in 1..(n * (n - 1)) |-> (SCALE \div 8) * (1 + (k % 3))]

(***************************************************************************)
(* One optimizer iteration: the two kernels called, in either order, on    *)
(* one zeroed gradient buffer.                                             *)
(***************************************************************************)
GradInit ==
    /\ \/ \E e \in EmbeddingInputs :
            /\ embedding = ToFixedPoints(e)
            /\ reference_embedding \in
                   {ToFixedPoints(r) : r \in ReferenceInputs(e)}
       \/ /\ embedding \in CloseEmbeddingInputs
          /\ reference_embedding = embedding
    /\ indices = CsrIndices(NPoints)
    /\ indptr = CsrIndptr(NPoints)
    /\ P_data = CsrData(NPoints)
    /\ gradient = [i \in 1..NPoints |-> ZeroVector]
    /\ \E p \in ParameterInputs :
         dof = p[1] /\ theta = p[2] /\ should_eval_error = p[3]
    /\ grad_threads \in {ClampThreads(n) : n \in 0..MaxThreads}
    /\ tree = BuildTree(reference_embedding)
    /\ grad_pc = "idle" /\ calls = <<>> /\ raised = "none" /\ fault = "none"
    /\ sum_Qi_ptr = "unset" /\ sum_Qi = <<>> /\ sum_Q = 0
    /\ bh_state = [i \in 1..NPoints |-> "todo"]
    /\ bh_stack = [i \in 1..NPoints |-> <<>>]
    /\ bh_distance = [i \in 1..NPoints |-> 0]
    /\ bh_q = [i \in 1..NPoints |-> -1]
    /\ bh_ret = 0
    /\ pos_pc = [t \in Threads |-> "off"]
    /\ pos_row = [t \in Threads |-> 0]
    /\ pos_k = [t \in Threads |-> 0]
    /\ diff_ptr = [t \in Threads |-> "unset"]
    /\ diff = [t \in Threads |-> ZeroVector]
    /\ d_ij = [t \in Threads |-> 0]
    /\ q_ij = [t \in Threads |-> -1]
    /\ sum_P = [t \in Threads |-> 0]
    /\ kl_divergence = [t \in Threads |-> 0]
    /\ pos_todo = {} /\ pos_done = {} /\ pos_ret = <<>>
    /\ grad_at_call = gradient
    /\ FftIdle
    /\ PerpIdle
    /\ CallIdle
    /\ OptIdle
    /\ ConvIdle

(***************************************************************************)
(* compute_negative_gradients_bh                                           *)
(***************************************************************************)
\* what line 205 would be were every worker handed slot 0
FirstSlot(i) == 1

\* line 205: worker i is handed &sum_Qi[i] and &gradient[i, 0]
WorkerSlot(i) == i

\* lines 190-201: the call, PyMem_Malloc and the zeroing loop.  The result
\* of PyMem_Malloc is not tested: when it is NULL the first store of the
\* zeroing loop goes through a null pointer and the process dies.
BhEnter ==
    /\ grad_pc = "idle" /\ \A c \in DOMAIN calls : calls[c] # "bh"
    /\ grad_at_call' = gradient
    /\ sum_Q' = 0
    /\ \E got \in {"ok", "null"} :
         /\ sum_Qi_ptr' = got
         /\ IF got = "ok"
            THEN /\ sum_Qi' = [i \in 1..NPoints |-> 0]
                 /\ grad_pc' = "bh"
                 /\ fault' = fault
            ELSE /\ sum_Qi' = sum_Qi
                 /\ grad_pc' = "crashed"
                 /\ fault' = "null_write"
    /\ UNCHANGED <<inputVars, gradient, calls, raised, bh_state, bh_stack,
                   bh_distance, bh_q, bh_ret, posVars>>
    /\ UNCHANGED notGrad

\* line 203-204: the prange hands point i to a free thread, which calls
\* estimate_negative_gradient on the root
BhStart(i) ==
    /\ grad_pc = "bh" /\ bh_state[i] = "todo"
    /\ Cardinality({j \in 1..NPoints : bh_state[j] = "run"}) < grad_threads
    /\ bh_state' = [bh_state EXCEPT ![i] = "run"]
    /\ bh_stack' = [bh_stack EXCEPT ![i] = << <<>> >>]
    /\ UNCHANGED <<inputVars, gradient, grad_pc, calls, raised, fault,
                   sum_Qi_ptr, sum_Qi, sum_Q, bh_distance, bh_q, bh_ret,
                   posVars, grad_at_call>>
    /\ UNCHANGED notGrad

\* lines 220-256: one call of estimate_negative_gradient by worker i, on the
\* node on top of its stack; the recursive calls are pushed
BhVisit(i) ==
    /\ grad_pc = "bh" /\ bh_state[i] = "run"
    /\ LET path == Head(bh_stack[i])
           rest == Tail(bh_stack[i])
           node == NodeAt(tree, path)
           point == embedding[i]
           distance == NodeDistance(node, point)
           q == StudentT(dof, distance)
           slot == WorkerSlot(i)
           children == [c \in 1..Len(node.children) |-> path \o <<c>>]
           summary == ~Skips(node, point) /\ IsSummary(node, point)
           descend == ~Skips(node, point) /\ ~IsSummary(node, point)
       IN  /\ bh_stack' = [bh_stack EXCEPT ![i] =
                  IF descend THEN children \o rest ELSE rest]
           \* the outermost call returns when nothing is left to visit
           /\ bh_state' = [bh_state EXCEPT ![i] =
                  IF ~descend /\ rest = <<>> THEN "done" ELSE "run"]
           /\ IF summary
              THEN /\ sum_Qi' = [sum_Qi EXCEPT ![slot] = @ + SumQTerm(node, q)]
                   /\ gradient' = [gradient EXCEPT ![slot] =
                          [d \in Dims |-> @[d] - GradientTerm(node, point, q, d)]]
                   /\ bh_distance' = [bh_distance EXCEPT ![i] = distance]
                   /\ bh_q' = [bh_q EXCEPT ![i] = q]
              ELSE UNCHANGED <<sum_Qi, gradient, bh_distance, bh_q>>
    /\ UNCHANGED <<inputVars, grad_pc, calls, raised, fault, sum_Qi_ptr,
                   sum_Q, bh_ret, posVars, grad_at_call>>
    /\ UNCHANGED notGrad

\* lines 215: what the normalisation would be without the division
NotNormalized(g, z) == g

\* lines 213-215: gradient[i, j] /= sum_Q + EPSILON
Normalized(g, z) ==
    [i \in DOMAIN g |-> [d \in DOMAIN g[i] |-> Div(g[i][d], z + EPSILON)]]

\* lines 207-217, after the prange has joined: the serial reduction, the
\* release of sum_Qi, the normalisation and the return
BhReturn ==
    /\ grad_pc = "bh" /\ \A i \in 1..NPoints : bh_state[i] = "done"
    /\ sum_Q' = sum_Q + SeqSum(sum_Qi)
    /\ sum_Qi_ptr' = "freed"
    /\ gradient' = Normalized(gradient, sum_Q')
    /\ bh_ret' = sum_Q'
    /\ calls' = Append(calls, "bh")
    /\ grad_pc' = "idle"
    /\ UNCHANGED <<inputVars, raised, fault, sum_Qi, bh_state, bh_stack,
                   bh_distance, bh_q, posVars, grad_at_call>>
    /\ UNCHANGED notGrad

(***************************************************************************)
(* compute_positive_gradients                                              *)
(***************************************************************************)
\* what the scratch vector would be were it allocated once for the team
SharedScratch(t) == 1

\* lines 131-134: diff is assigned inside the parallel block, so every
\* thread of the team has its own pointer and its own buffer
ScratchOf(t) == t

\* lines 120-131: the call; the team enters the parallel block
PosEnter ==
    /\ grad_pc = "idle" /\ \A c \in DOMAIN calls : calls[c] # "pos"
    /\ grad_at_call' = gradient
    /\ grad_pc' = "pos"
    /\ pos_pc' = [t \in Threads |-> IF t <= grad_threads THEN "malloc" ELSE "off"]
    /\ pos_todo' = 1..NPoints
    /\ pos_done' = {}
    /\ UNCHANGED <<inputVars, gradient, calls, raised, fault, bhVars, pos_row,
                   pos_k, diff_ptr, diff, d_ij, q_ij, sum_P, kl_divergence,
                   pos_ret>>
    /\ UNCHANGED notGrad

\* lines 134-137: malloc, and MemoryError when it returns NULL
PosMalloc(t) ==
    /\ grad_pc = "pos" /\ pos_pc[t] = "malloc"
    /\ \E got \in {"ok", "null"} :
         /\ diff_ptr' = [diff_ptr EXCEPT ![t] = got]
         /\ IF got = "ok"
            THEN /\ pos_pc' = [pos_pc EXCEPT ![t] = "idle"]
                 /\ raised' = raised
            ELSE /\ pos_pc' = [pos_pc EXCEPT ![t] = "raised"]
                 /\ raised' = "MemoryError"
    /\ UNCHANGED <<inputVars, gradient, grad_pc, calls, fault, bhVars, pos_row,
                   pos_k, diff, d_ij, q_ij, sum_P, kl_divergence, pos_todo,
                   pos_done, pos_ret, grad_at_call>>
    /\ UNCHANGED notGrad

\* line 139-141: the prange hands row i to thread t
PosTakeRow(t, i) ==
    /\ grad_pc = "pos" /\ pos_pc[t] = "idle" /\ i \in pos_todo
    /\ pos_todo' = pos_todo \ {i}
    /\ pos_row' = [pos_row EXCEPT ![t] = i]
    /\ pos_k' = [pos_k EXCEPT ![t] = indptr[i]]
    /\ IF indptr[i] < indptr[i + 1]
       THEN /\ pos_pc' = [pos_pc EXCEPT ![t] = "diff"]
            /\ pos_done' = pos_done
       ELSE /\ pos_pc' = pos_pc
            /\ pos_done' = pos_done \cup {i}
    /\ UNCHANGED <<inputVars, gradient, grad_pc, calls, raised, fault, bhVars,
                   diff_ptr, diff, d_ij, q_ij, sum_P, kl_divergence, pos_ret,
                   grad_at_call>>
    /\ UNCHANGED notGrad

\* what lines 146-149 would be were the difference stored in the row of the
\* embedding instead of the scratch vector
PosDiffIntoEmbedding(t) ==
    /\ grad_pc = "pos" /\ pos_pc[t] = "diff"
    /\ LET i == pos_row[t]
           j == indices[pos_k[t]]
           v == [d \in Dims |-> embedding[i][d] - reference_embedding[j][d]]
       IN  /\ embedding' = [embedding EXCEPT ![i] = v]
           /\ diff' = [diff EXCEPT ![ScratchOf(t)] = v]
           /\ d_ij' = [d_ij EXCEPT ![t] = SeqSum([d \in Dims |-> Mul(v[d], v[d])])]
    /\ pos_pc' = [pos_pc EXCEPT ![t] = "acc"]
    /\ UNCHANGED <<reference_embedding, indices, indptr, P_data, dof, theta,
                   grad_threads, should_eval_error, tree, gradient, grad_pc,
                   calls, raised, fault, bhVars, pos_row, pos_k, diff_ptr,
                   q_ij, sum_P, kl_divergence, pos_todo, pos_done, pos_ret,
                   grad_at_call>>
    /\ UNCHANGED notGrad

\* lines 142-149: the difference to neighbour j and the squared distance
PosDiff(t) ==
    /\ grad_pc = "pos" /\ pos_pc[t] = "diff"
    /\ LET i == pos_row[t]
           j == indices[pos_k[t]]
           v == [d \in Dims |-> embedding[i][d] - reference_embedding[j][d]]
       IN  /\ diff' = [diff EXCEPT ![ScratchOf(t)] = v]
           /\ d_ij' = [d_ij EXCEPT ![t] = SeqSum([d \in Dims |-> Mul(v[d], v[d])])]
    /\ pos_pc' = [pos_pc EXCEPT ![t] = "acc"]
    /\ UNCHANGED <<inputVars, gradient, grad_pc, calls, raised, fault, bhVars,
                   pos_row, pos_k, diff_ptr, q_ij, sum_P, kl_divergence,
                   pos_todo, pos_done, pos_ret, grad_at_call>>
    /\ UNCHANGED notGrad

\* lines 151-165 and the loop header of line 141: q_ij, the force of j on i,
\* the error terms, and on to the next neighbour
PosAccumulate(t) ==
    /\ grad_pc = "pos" /\ pos_pc[t] = "acc"
    /\ LET i == pos_row[t]
           p_ij == P_data[pos_k[t]]
           q == StudentT(dof, d_ij[t])
           v == diff[ScratchOf(t)]
       IN  /\ q_ij' = [q_ij EXCEPT ![t] = q]
           /\ gradient' = [gradient EXCEPT ![i] =
                  [d \in Dims |-> @[d] + Mul(Mul(q, p_ij), v[d])]]
           /\ IF should_eval_error
              THEN /\ sum_P' = [sum_P EXCEPT ![t] = @ + p_ij]
                   /\ kl_divergence' = [kl_divergence EXCEPT ![t] =
                          @ + Mul(p_ij, Log(Div(p_ij, q + EPSILON)))]
              ELSE UNCHANGED <<sum_P, kl_divergence>>
           /\ pos_k' = [pos_k EXCEPT ![t] = @ + 1]
           /\ IF pos_k[t] + 1 < indptr[i + 1]
              THEN /\ pos_pc' = [pos_pc EXCEPT ![t] = "diff"]
                   /\ pos_done' = pos_done
              ELSE /\ pos_pc' = [pos_pc EXCEPT ![t] = "idle"]
                   /\ pos_done' = pos_done \cup {i}
    /\ UNCHANGED <<inputVars, grad_pc, calls, raised, fault, bhVars, pos_row,
                   diff_ptr, diff, d_ij, pos_todo, pos_ret, grad_at_call>>
    /\ UNCHANGED notGrad

\* line 167: the prange is exhausted (or cut short by another thread's
\* exception) and the thread frees its scratch vector
PosFree(t) ==
    /\ grad_pc = "pos" /\ pos_pc[t] = "idle"
    /\ pos_todo = {} \/ raised # "none"
    /\ diff_ptr' = [diff_ptr EXCEPT ![t] = "freed"]
    /\ pos_pc' = [pos_pc EXCEPT ![t] = "end"]
    /\ UNCHANGED <<inputVars, gradient, grad_pc, calls, raised, fault, bhVars,
                   pos_row, pos_k, diff, d_ij, q_ij, sum_P, kl_divergence,
                   pos_todo, pos_done, pos_ret, grad_at_call>>
    /\ UNCHANGED notGrad

\* line 169, after the team has joined: the reductions are combined and the
\* tuple is returned, or the exception of a thread propagates
PosReturn ==
    /\ grad_pc = "pos"
    /\ \A t \in ActiveThreads : pos_pc[t] \in {"end", "raised"}
    /\ IF raised # "none"
       THEN /\ grad_pc' = "error"
            /\ UNCHANGED <<pos_ret, calls>>
       ELSE /\ grad_pc' = "idle"
            /\ pos_ret' = <<SeqSum(sum_P), SeqSum(kl_divergence)>>
            /\ calls' = Append(calls, "pos")
    /\ UNCHANGED <<inputVars, gradient, raised, fault, bhVars, pos_pc, pos_row,
                   pos_k, diff_ptr, diff, d_ij, q_ij, sum_P, kl_divergence,
                   pos_todo, pos_done, grad_at_call>>
    /\ UNCHANGED notGrad

GradNext ==
    \/ BhEnter
    \/ \E i \in 1..NPoints : BhStart(i)
    \/ \E i \in 1..NPoints : BhVisit(i)
    \/ BhReturn
    \/ PosEnter
    \/ \E t \in Threads : PosMalloc(t)
    \/ \E t \in Threads, i \in 1..NPoints : PosTakeRow(t, i)
    \/ \E t \in Threads : PosDiff(t)
    \/ \E t \in Threads : PosAccumulate(t)
    \/ \E t \in Threads : PosFree(t)
    \/ PosReturn

SpecGrad == GradInit /\ [][GradNext]_vars

(***************************************************************************)
(* Reference values: what one worker, alone, computes for point i.         *)
(***************************************************************************)
\* the attractive force on point i from its neighbours k.. of the sparse P
RECURSIVE AttractiveFrom(_, _)
AttractiveFrom(i, k) ==
    IF k >= indptr[i + 1] THEN ZeroVector
    ELSE LET j == indices[k]
             v == [d \in Dims |-> embedding[i][d] - reference_embedding[j][d]]
             q == StudentT(dof, SeqSum([d \in Dims |-> Mul(v[d], v[d])]))
             rest == AttractiveFrom(i, k + 1)
         IN  [d \in Dims |-> Mul(Mul(q, P_data[k]), v[d]) + rest[d]]

Attractive(i) == AttractiveFrom(i, indptr[i])

\* the repulsive sum of point i over the tree, and its share of Z
Repulsive(i) == Traverse(tree, embedding[i])[2]
PartialZ(i) == Traverse(tree, embedding[i])[1]
TotalZ == SeqSum([i \in 1..NPoints |-> PartialZ(i)])

Returned(k) ==
    grad_pc = "idle" /\ calls # <<>> /\ calls[Len(calls)] = k

(***************************************************************************)
(* C1 as stated: wherever a kernel has computed a Student-t similarity,    *)
(* it is dof / (dof + squared distance), raised to (dof + 1) / 2 when      *)
(* dof # 1 and left unchanged when dof = 1.                                *)
(***************************************************************************)
C1_StudentTExponent ==
    /\ \A t \in DOMAIN q_ij :
           (q_ij[t] # -1 /\ pos_pc[t] # "acc") =>
               q_ij[t] = StudentTHalfExponent(dof, d_ij[t])
    /\ \A i \in DOMAIN bh_q :
           bh_q[i] # -1 => bh_q[i] = StudentTHalfExponent(dof, bh_distance[i])

(***************************************************************************)
(* C5: from a zeroed buffer, the Barnes-Hut kernel followed by the         *)
(* positive kernel leaves attractive_i - repulsive_i / (Z + EPSILON); in   *)
(* the opposite order the negative kernel rescales what the positive       *)
(* kernel had stored, leaving (attractive_i - repulsive_i) / (Z + EPSILON).*)
(***************************************************************************)
ForwardGradient(i) ==
    [d \in Dims |-> Attractive(i)[d] - Div(Repulsive(i)[d], TotalZ + EPSILON)]

ReversedGradient(i) ==
    [d \in Dims |-> Div(Attractive(i)[d] - Repulsive(i)[d], TotalZ + EPSILON)]

C5_NegativeBeforePositive ==
    /\ (grad_pc = "idle" /\ calls = <<"bh", "pos">>) =>
           \A i \in 1..NPoints : gradient[i] = ForwardGradient(i)
    /\ (grad_pc = "idle" /\ calls = <<"pos", "bh">>) =>
           \A i \in 1..NPoints :
               gradient[i] = ReversedGradient(i)

\* both kernels have run in the wrong order and the buffer differs from the
\* one the right order leaves
C5_Witness ==
    /\ grad_pc = "idle" /\ calls = <<"pos", "bh">>
    /\ \E i \in 1..NPoints : gradient[i] # ForwardGradient(i)
    /\ \E i \in 1..NPoints, d \in Dims : Repulsive(i)[d] # 0

(***************************************************************************)
(* C5 as stated, on an embedding whose points all coincide: the opposite   *)
(* order leaves a buffer different from the one the right order leaves.    *)
(* There attractive_i and repulsive_i are zero (every difference is zero,  *)
(* every leaf is a duplicate), so both orders leave the zero buffer.       *)
(***************************************************************************)
C5_OppositeOrderDiffers ==
    (/\ grad_pc = "idle" /\ calls = <<"pos", "bh">>
     /\ \A i \in 1..NPoints : embedding[i] = embedding[1]) =>
        \E i \in 1..NPoints : gradient[i] # ForwardGradient(i)

(***************************************************************************)
(* C6: in compute_negative_gradients_bh, under every interleaving, worker  *)
(* i writes slot i of sum_Qi and row i of the gradient only; sum_Q is      *)
(* formed after every worker has finished; each gradient entry is divided  *)
(* by Z + EPSILON once; and Z is returned.                                 *)
(***************************************************************************)
C6_BarnesHutWorkersDisjoint ==
    /\ grad_pc = "bh" =>
           /\ sum_Q = 0
           /\ \A i \in 1..NPoints :
                  /\ bh_state[i] = "todo" =>
                         sum_Qi[i] = 0 /\ gradient[i] = grad_at_call[i]
                  /\ bh_state[i] = "done" =>
                         /\ sum_Qi[i] = PartialZ(i)
                         /\ gradient[i] =
                              [d \in Dims |-> grad_at_call[i][d] - Repulsive(i)[d]]
    /\ Returned("bh") =>
           /\ bh_ret = TotalZ
           /\ sum_Q = TotalZ
           /\ \A i \in 1..NPoints :
                  gradient[i] =
                      [d \in Dims |->
                          Div(grad_at_call[i][d] - Repulsive(i)[d], TotalZ + EPSILON)]

\* two workers in the middle of their traversals, both with partial sums
C6_Witness ==
    /\ grad_pc = "bh"
    /\ \E i, j \in 1..NPoints :
           /\ i # j
           /\ bh_state[i] = "run" /\ bh_state[j] = "run"
           /\ sum_Qi[i] > 0 /\ sum_Qi[j] > 0

(***************************************************************************)
(* C7: in compute_positive_gradients, under every interleaving and for     *)
(* every num_threads, the worker of point i writes row i of the gradient   *)
(* and its own scratch vector only: every completed row is the row one     *)
(* worker computes in sequence, and rows not yet handed out are untouched. *)
(***************************************************************************)
C7_PositiveRowsSequential ==
    (grad_pc \in {"pos", "error"} \/ Returned("pos")) =>
        \A i \in 1..NPoints :
            /\ i \in pos_done =>
                   gradient[i] = [d \in Dims |-> grad_at_call[i][d] + Attractive(i)[d]]
            /\ i \in pos_todo => gradient[i] = grad_at_call[i]

\* a completed row, while two threads are between writing their scratch
\* vectors and reading them back
C7_Witness ==
    /\ grad_pc = "pos"
    /\ pos_done # {}
    /\ \E t, u \in Threads :
           /\ t # u /\ pos_pc[t] = "acc" /\ pos_pc[u] = "acc"
           /\ diff[t] # diff[u]

(***************************************************************************)
(* C10 as stated: an allocation failure in a gradient kernel surfaces as   *)
(* an error to the caller, and the null buffer is never written or read.   *)
(***************************************************************************)
C10_AllocationFailureSurfaces ==
    /\ fault = "none"
    /\ grad_pc # "crashed"
    /\ sum_Qi_ptr = "null" => (raised = "MemoryError" /\ grad_pc \in {"bh", "error"})
    /\ \A t \in DOMAIN diff_ptr :
           diff_ptr[t] = "null" =>
               /\ raised = "MemoryError"
               /\ pos_pc[t] = "raised"
               /\ grad_pc \in {"pos", "error"}

(***************************************************************************)
(* C11: when all points of the embedding are the same point, the           *)
(* Barnes-Hut kernel called on a zeroed gradient skips every interaction   *)
(* (no partial sum and no gradient row is ever written), returns Z = 0,    *)
(* divides by Z + EPSILON, which is not zero, and leaves every gradient    *)
(* entry zero.                                                             *)
(***************************************************************************)
AllPointsIdentical == \A i \in 1..NPoints : embedding[i] = embedding[1]

FftCoords == 0..MaxFftCoord

\* Values the FFT library can leave at one index of the two transformed
\* vectors (external collaborator: any complex numbers): <<w, k>>
CoefficientPairs ==
    { << <<1, 1>>, <<2, -1>> >>,
      << <<0, 3>>, <<0, 3>> >>,
      << <<2, -1>>, <<1, 0>> >> }

\* One iteration of the 1-D scan, lines 302-306: `if ... elif ...`.
ScanUpdate(lo, hi, v) ==
    IF v < lo THEN <<v, hi>>
    ELSE IF v > hi THEN <<lo, v>>
    ELSE <<lo, hi>>

\* complex * complex, as C computes it (line 421).
ComplexMul(w, k) == <<w[1] * k[1] - w[2] * k[2], w[1] * k[2] + w[2] * k[1]>>

\* The 2-D kernel's two assignments, in order (lines 634-637): .real is
\* overwritten, then .imag is computed from the new .real.
HadamardInPlace(w, k) ==
    LET re == w[1] * k[1] - w[2] * k[2]
        im == re * k[2] + k[1] * w[2]
    IN  <<re, im>>

FftInit ==
    /\ fft_dims \in {1, 2}
    /\ fft_embedding \in
         IF fft_dims = 1
         THEN SeqsOf(FftCoords, 1, MaxFftPoints)
         ELSE SeqsOf(FftCoords \X FftCoords, 1, MaxFftPoints - 1)
    /\ fft_pc = "scan"
    /\ fft_i = 1
    /\ y_max = -INFINITY
    /\ y_min = INFINITY
    /\ fft_w_coeffs = <<>>
    /\ fft_kernel_tilde = <<>>
    /\ fft_w_before = <<>>
    /\ PerpIdle
    /\ GradIdle
    /\ CallIdle
    /\ OptIdle
    /\ ConvIdle

\* for i in range(N): one iteration of the min/max loop of the 1-D kernel
Scan1dStep ==
    /\ fft_dims = 1 /\ fft_pc = "scan" /\ fft_i <= Len(fft_embedding)
    /\ LET r == ScanUpdate(y_min, y_max, fft_embedding[fft_i])
       IN  y_min' = r[1] /\ y_max' = r[2]
    /\ fft_i' = fft_i + 1
    /\ UNCHANGED <<fft_dims, fft_embedding, fft_pc, fft_w_coeffs,
                   fft_kernel_tilde, fft_w_before>>
    /\ UNCHANGED notFft

\* one iteration of the min/max loop of the 2-D kernel: axis 0, then axis 1,
\* both against the same coord_min / coord_max
Scan2dStep ==
    /\ fft_dims = 2 /\ fft_pc = "scan" /\ fft_i <= Len(fft_embedding)
    /\ LET r0 == ScanUpdate(y_min, y_max, fft_embedding[fft_i][1])
           r1 == ScanUpdate(r0[1], r0[2], fft_embedding[fft_i][2])
       IN  y_min' = r1[1] /\ y_max' = r1[2]
    /\ fft_i' = fft_i + 1
    /\ UNCHANGED <<fft_dims, fft_embedding, fft_pc, fft_w_coeffs,
                   fft_kernel_tilde, fft_w_before>>
    /\ UNCHANGED notFft

\* the scan loop is exhausted; the kernel goes on to the transforms
ScanDone ==
    /\ fft_pc = "scan" /\ fft_i > Len(fft_embedding)
    /\ fft_pc' = "fftw"
    /\ UNCHANGED <<fft_dims, fft_embedding, fft_i, y_min, y_max, fft_w_coeffs,
                   fft_kernel_tilde, fft_w_before>>
    /\ UNCHANGED notFft

\* fftw_execute(plan_dft) for the kernel (once) and for the charges: the
\* library leaves complex vectors of equal length.
FftwExecute ==
    /\ fft_pc = "fftw"
    /\ \E n \in 1..MaxCoeffs :
         \E wk \in [1..n -> CoefficientPairs] :
             /\ fft_w_coeffs' = [c \in 1..n |-> wk[c][1]]
             /\ fft_kernel_tilde' = [c \in 1..n |-> wk[c][2]]
    /\ fft_w_before' = fft_w_coeffs'
    /\ fft_pc' = "hadamard"
    /\ fft_i' = 1
    /\ UNCHANGED <<fft_dims, fft_embedding, y_min, y_max>>
    /\ UNCHANGED notFft

\* one iteration of the Hadamard loop of the 1-D kernel (lines 420-421)
Hadamard1dStep ==
    /\ fft_dims = 1 /\ fft_pc = "hadamard" /\ fft_i <= Len(fft_w_coeffs)
    /\ fft_w_coeffs' = [fft_w_coeffs EXCEPT
           ![fft_i] = ComplexMul(fft_w_coeffs[fft_i], fft_kernel_tilde[fft_i])]
    /\ fft_i' = fft_i + 1
    /\ UNCHANGED <<fft_dims, fft_embedding, fft_pc, y_min, y_max,
                   fft_kernel_tilde, fft_w_before>>
    /\ UNCHANGED notFft

\* one iteration of the Hadamard loop of the 2-D kernel (lines 633-637)
Hadamard2dStep ==
    /\ fft_dims = 2 /\ fft_pc = "hadamard" /\ fft_i <= Len(fft_w_coeffs)
    /\ fft_w_coeffs' = [fft_w_coeffs EXCEPT
           ![fft_i] = HadamardInPlace(fft_w_coeffs[fft_i], fft_kernel_tilde[fft_i])]
    /\ fft_i' = fft_i + 1
    /\ UNCHANGED <<fft_dims, fft_embedding, fft_pc, y_min, y_max,
                   fft_kernel_tilde, fft_w_before>>
    /\ UNCHANGED notFft

HadamardDone ==
    /\ fft_pc = "hadamard" /\ fft_i > Len(fft_w_coeffs)
    /\ fft_pc' = "done"
    /\ UNCHANGED <<fft_dims, fft_embedding, fft_i, y_min, y_max, fft_w_coeffs,
                   fft_kernel_tilde, fft_w_before>>
    /\ UNCHANGED notFft

FftNext ==
    \/ Scan1dStep
    \/ Scan2dStep
    \/ ScanDone
    \/ FftwExecute
    \/ Hadamard1dStep
    \/ Hadamard2dStep
    \/ HadamardDone

SpecFFT == FftInit /\ [][FftNext]_vars

(***************************************************************************)
(* C2: in both FFT kernels, once the min/max scan is over, the interval    *)
(* [y_min, y_max] (2-D: [coord_min, coord_max]) contains every coordinate  *)
(* of the embedding.                                                       *)
(***************************************************************************)
FftCoordinates ==
    IF fft_dims = 1
    THEN {fft_embedding[p] : p \in 1..Len(fft_embedding)}
    ELSE {fft_embedding[p][d] : p \in 1..Len(fft_embedding), d \in {1, 2}}

C2_BoundingIntervalContainsAll ==
    fft_pc # "scan" => \A c \in FftCoordinates : y_min <= c /\ c <= y_max

CallParameterInputs == { <<1, 1>>, <<1, 2>>, <<2, 1>> }

\* intervals_per_int: wide enough for n_boxes to be min_num_intervals
IntervalsPerInt == 4 * SCALE

\* 1-D embeddings: all of them; 2-D: every single point and some pairs
CallEmbeddingInputs(dims) ==
    IF dims = 1
    THEN {[i \in DOMAIN e |-> <<e[i]>>] : e \in SeqsOf(FftCoords, 1, MaxFftPoints)}
    ELSE {<<p>> : p \in FftCoords \X FftCoords}
         \cup { << <<0, 0>>, <<1, 2>> >>, << <<2, 1>>, <<0, 1>> >>,
                << <<1, 1>>, <<1, 1>> >>, << <<2, 2>>, <<1, 1>> >>,
                << <<0, 1>>, <<1, 0>>, <<0, 0>> >> }

CallN == Len(call_embedding)
CallPoints == 1..CallN
CallAxes == 1..call_dims

\* the coordinates in the order the scan of lines 302-306 / 467-475 reads them
RECURSIVE CoordsInOrder(_)
CoordsInOrder(e) ==
    IF e = <<>> THEN <<>> ELSE Head(e) \o CoordsInOrder(Tail(e))

\* the whole scan loop: <<min, max>> as the loop leaves them
RECURSIVE ScanFrom(_, _, _)
ScanFrom(cs, lo, hi) ==
    IF cs = <<>> THEN <<lo, hi>>
    ELSE LET r == ScanUpdate(lo, hi, Head(cs))
         IN  ScanFrom(Tail(cs), r[1], r[2])

\* Cython's max(a, b) on doubles: b when b > a, else a
DMax(a, b) == IF DGreater(b, a) THEN b ELSE a

\* lines 308 / 477: <int>max(min_num_intervals, (max - min) / intervals_per_int)
NBoxes(lo, hi, mni) ==
    CastInt(DMax(mni * SCALE, DDiv(DSub(hi, lo), IntervalsPerInt)))

\* lines 309 / 479
BoxWidth(lo, hi, nb) == DDivInt(DSub(hi, lo), nb)

\* lines 328-331 / 506-509: the nodes inside the unit box
YTildeSpacing(nip) ==
    LET h == TruncDiv(SCALE, nip)
    IN  [i \in 1..nip |-> TruncDiv(h, 2) + (i - 1) * h]

\* lines 334-337 / 516-523: the position of grid node i (0-based)
RECURSIVE YTilde(_, _, _, _)
YTilde(i, nip, width, lo) ==
    LET h == DMul(TruncDiv(SCALE, nip), width)
    IN  IF i = 0 THEN DAdd(DDivInt(h, 2), lo)
        ELSE DAdd(YTilde(i - 1, nip, width, lo), h)

\* lines 259-260
cauchy_1d(x, y) ==
    LET s == DAdd(SCALE, DMul(DSub(x, y), DSub(x, y)))
    IN  DDiv(SCALE, DMul(s, s))

\* lines 263-264
cauchy_2d(x1, x2, y1, y2) ==
    LET s == DAdd(DAdd(SCALE, DMul(DSub(x1, y1), DSub(x1, y1))),
                  DMul(DSub(x2, y2), DSub(x2, y2)))
    IN  DDiv(SCALE, DMul(s, s))

\* lines 341-348: the generating vector of the circulant matrix, length 2T;
\* kv[i + 1] is the kernel between node 0 and node i
KernelTilde1d(kv) ==
    LET T == Len(kv)
    IN  [m \in 1..(2 * T) |->
            IF m = 1 THEN 0
            ELSE IF m - 1 >= T THEN kv[m - T]
            ELSE kv[T - m + 2]]

\* lines 527-539: the kernel mirrored into the four quadrants around (n, n);
\* row 0 and column 0 keep the zeros of np.zeros
KernelTilde2d(kv) ==
    LET n == Len(kv)
    IN  [a \in 1..(2 * n) |-> [b \in 1..(2 * n) |->
            IF a = 1 \/ b = 1 THEN 0
            ELSE kv[Abs(a - 1 - n) + 1][Abs(b - 1 - n) + 1]]]

\* the kernel between grid node 0 and every grid node, per axis offset
KernelValues1d(T, nip, width, lo) ==
    [i \in 1..T |-> cauchy_1d(YTilde(0, nip, width, lo), YTilde(i - 1, nip, width, lo))]

KernelValues2d(n, nip, width, lo) ==
    [i \in 1..n |-> [j \in 1..n |->
        cauchy_2d(YTilde(0, nip, width, lo), YTilde(0, nip, width, lo),
                  YTilde(i - 1, nip, width, lo), YTilde(j - 1, nip, width, lo))]]

Complexify(x) == [i \in DOMAIN x |-> <<x[i], 0>>]

\* lines 364-368 / 555-562: the box of a coordinate, over the outcomes of
\* the cast; an index at or above n_boxes is moved into the last box
ClampBox(b, nb) == IF b >= nb THEN nb - 1 ELSE b

BoxOutcomes(c, lo, width, nb) ==
    {ClampBox(b, nb) : b \in CastInt(DDiv(DSub(c, lo), width))}

ValidBox(b, nb) == b >= 0 /\ b < nb

\* lines 322 / 498, 501: the lower bound of box b
BoxLowerBound(b, width, lo) == DAdd(DMulInt(width, b), lo)

\* lines 376 / 575-576
InBox(c, b, width, lo) == DDiv(DSub(c, BoxLowerBound(b, width, lo)), width)

\* lines 277-289 (interpolate): the product over k # j, in the order of k
RECURSIVE LagrangeNumerator(_, _, _, _)
LagrangeNumerator(y, sp, j, k) ==
    IF k = 0 THEN SCALE
    ELSE LET rest == LagrangeNumerator(y, sp, j, k - 1)
         IN  IF k = j THEN rest ELSE DMul(rest, DSub(y, sp[k]))

RECURSIVE LagrangeDenominator(_, _, _)
LagrangeDenominator(sp, j, k) ==
    IF k = 0 THEN SCALE
    ELSE LET rest == LagrangeDenominator(sp, j, k - 1)
         IN  IF k = j THEN rest ELSE DMul(rest, sp[j] - sp[k])

interpolate(y, sp) ==
    [j \in DOMAIN sp |->
        DDiv(LagrangeNumerator(y, sp, j, Len(sp)),
             LagrangeDenominator(sp, j, Len(sp)))]

\* lines 313-316 / 483-487
Charges(pt) ==
    IF Len(pt) = 1
    THEN <<SCALE, pt[1], Mul(pt[1], pt[1])>>
    ELSE <<SCALE, pt[1], pt[2], Mul(pt[1], pt[1]) + Mul(pt[2], pt[2])>>

\* lines 385-388: the grid node (0-based) of point i's interpolation node j
GridIndex1d(b, j, nip) == b * nip + j

\* lines 594-597 and 664-667, with box_i = box_idx % n_boxes_1d and
\* box_j = box_idx // n_boxes_1d of lines 590-591 / 660-661
GridIndex2d(box_idx, interp_i, interp_j, nip, nb) ==
    LET box_i == box_idx % nb
        box_j == box_idx \div nb
    IN  (box_i * nip + interp_i) * (nb * nip) + (box_j * nip) + interp_j

\* line 564
PointBoxIdx(bs, nb) == IF Len(bs) = 1 THEN bs[1] ELSE bs[2] * nb + bs[1]

\* the pairs (interp_i, interp_j) of a point, in loop order; 1-D: (j, 0)
InterpPairs(dims, nip) ==
    IF dims = 1 THEN [q \in 1..nip |-> <<q - 1, 0>>]
    ELSE [q \in 1..(nip * nip) |-> <<(q - 1) \div nip, (q - 1) % nip>>]

\* the grid index of every interpolation node of a point, in loop order
GridIndices(bs, dims, nip, nb) ==
    LET pr == InterpPairs(dims, nip)
    IN  [q \in DOMAIN pr |->
            IF dims = 1 THEN GridIndex1d(bs[1], pr[q][1], nip)
            ELSE GridIndex2d(PointBoxIdx(bs, nb), pr[q][1], pr[q][2], nip, nb)]

\* the weight of interpolation node q of a point: lines 388 / 600-601
Weight(iv, dims, pr) ==
    IF dims = 1 THEN iv[1][pr[1] + 1]
    ELSE DMul(iv[1][pr[1] + 1], iv[2][pr[2] + 1])

\* the number of grid nodes: total_interpolation_points (lines 325 / 586)
TotalPoints(dims, nip, nb) ==
    IF dims = 1 THEN nip * nb ELSE (nb * nb) * (nip * nip)

\* lines 383-388 / 587-602: the charges of the points spread over the grid
RECURSIVE Aggregate(_, _, _, _, _, _, _)
Aggregate(i, e, boxes, iv, dims, nip, nb) ==
    IF i = 0
    THEN [g \in 1..TotalPoints(dims, nip, nb) |-> [d \in 1..(dims + 2) |-> 0]]
    ELSE LET before == Aggregate(i - 1, e, boxes, iv, dims, nip, nb)
             pr == InterpPairs(dims, nip)
             gi == GridIndices(boxes[i], dims, nip, nb)
             ch == Charges(e[i])
         IN  [g \in DOMAIN before |-> [d \in DOMAIN before[g] |->
                 DAdd(before[g][d],
                      DSum([q \in DOMAIN pr |->
                               IF gi[q] + 1 = g
                               THEN DMul(Weight(iv[i], dims, pr[q]), ch[d])
                               ELSE 0]))]]

\* complex * complex on fixed-point doubles (line 421)
ComplexMulD(w, k) ==
    <<DSub(DMul(w[1], k[1]), DMul(w[2], k[2])),
      DAdd(DMul(w[1], k[2]), DMul(w[2], k[1]))>>

\* lines 634-637 on fixed-point doubles: .imag is computed from the new .real
HadamardInPlaceD(w, k) ==
    LET re == DSub(DMul(w[1], k[1]), DMul(w[2], k[2]))
        im == DAdd(DMul(re, k[2]), DMul(k[1], w[2]))
    IN  <<re, im>>

\* line 393: the charges are placed at offset T of the doubled grid
\* (2-D, line 628: at offset 0)
ChargeOffset(dims, T) == IF dims = 1 THEN T ELSE 0

\* what lines 429 / 647-648 would be were the values read at the offset the
\* charges were placed at
ReadAtChargeOffset(dims, T) == ChargeOffset(dims, T)

\* line 429: the values are read at offset 0 (2-D, lines 647-648: at (n, n))
ReadOffset(dims, T) == IF dims = 1 THEN 0 ELSE T

\* lines 390-393 and 414-415: one term's charges on the doubled grid
Embed1d(col, off) ==
    LET T == Len(col)
    IN  [m \in 1..(2 * T) |->
            IF m - 1 >= off /\ m - 1 < off + T THEN col[m - off] ELSE 0]

\* lines 624-628: zmpol, 2n x 2n, holds the n x n charges from (off, off)
Embed2d(col, n, off) ==
    [a \in 1..(2 * n) |-> [b \in 1..(2 * n) |->
        IF a - 1 >= off /\ a - 1 < off + n /\ b - 1 >= off /\ b - 1 < off + n
        THEN col[(a - 1 - off) * n + (b - 1 - off) + 1]
        ELSE 0]]

\* the product of the Hadamard loop (lines 418-422 / 632-637) and the
\* division of the normalisation (lines 429 / 647-648): on fixed-point
\* doubles, or exact on integers
Hadamard(dims, exact, w, k) ==
    IF dims = 1
    THEN (IF exact THEN ComplexMul(w, k) ELSE ComplexMulD(w, k))
    ELSE (IF exact THEN HadamardInPlace(w, k) ELSE HadamardInPlaceD(w, k))

NormalisedBy(exact, x, n) == IF exact THEN x \div n ELSE DDivInt(x, n)

\* lines 413-429: forward transform, Hadamard product, inverse transform,
\* normalisation by the length 2T, for one term
Convolve1d(col, fk, off, rd, exact) ==
    LET T == Len(col)
        fw == Dft1d(Complexify(Embed1d(col, off)), 1)
        prod == [c \in DOMAIN fw |-> Hadamard(1, exact, fw[c], fk[c])]
        back == Dft1d(prod, 3)
    IN  [i \in 1..T |-> NormalisedBy(exact, back[rd + i][1], 2 * T)]

\* lines 622-651: the same for the 2-D kernel, real-to-complex transforms
Convolve2d(col, fk, n, off, rd, exact) ==
    LET fw == DftR2c2d(Embed2d(col, n, off))
        prod == [c \in DOMAIN fw |-> Hadamard(2, exact, fw[c], fk[c])]
        back == DftC2r2d(prod, 2 * n)
    IN  [g \in 1..(n * n) |->
            NormalisedBy(exact,
                back[rd + ((g - 1) \div n) + 1][rd + ((g - 1) % n) + 1],
                (2 * n) * (2 * n))]

\* the grid nodes per axis: total_interpolation_points (1-D),
\* n_interpolation_points_1d (2-D)
NodesPerAxis(nip, nb) == nip * nb

\* y_tilde_values: every term convolved with the kernel
Convolved(w, fk, dims, nip, nb) ==
    LET n == NodesPerAxis(nip, nb)
        col(d) == [g \in DOMAIN w |-> w[g][d]]
        out(d) == IF dims = 1
                  THEN Convolve1d(col(d), fk, ChargeOffset(1, n), ReadOffset(1, n),
                                  FALSE)
                  ELSE Convolve2d(col(d), fk, n, ChargeOffset(2, n),
                                  ReadOffset(2, n), FALSE)
        all == [d \in 1..(dims + 2) |-> out(d)]
    IN  [g \in DOMAIN w |-> [d \in 1..(dims + 2) |-> all[d][g]]]

\* lines 435-440 / 657-672: the potentials of one point
PotentialsOf(bs, iv, ytv, dims, nip, nb) ==
    LET pr == InterpPairs(dims, nip)
        gi == GridIndices(bs, dims, nip, nb)
    IN  [d \in 1..(dims + 2) |->
            DSum([q \in DOMAIN pr |->
                     DMul(Weight(iv, dims, pr[q]), ytv[gi[q] + 1][d])])]

\* lines 448 / 683: one point's term of z_sum
ZTerm(pt, phi) ==
    IF Len(pt) = 1
    THEN DAdd(DSub(DMul(DAdd(SCALE, Mul(pt[1], pt[1])), phi[1]),
                   DMulInt(DMul(pt[1], phi[2]), 2)),
              phi[3])
    ELSE DAdd(DSub(DMul(DAdd(SCALE, Mul(pt[1], pt[1]) + Mul(pt[2], pt[2])), phi[1]),
                   DMulInt(DAdd(DMul(pt[1], phi[2]), DMul(pt[2], phi[3])), 2)),
              phi[4])

\* lines 442-449 / 674-684
ZSum(e, pot) ==
    DSub(DSum([i \in DOMAIN e |-> ZTerm(e[i], pot[i])]), Len(e) * SCALE)

\* lines 451-452 / 686-688: the row of point i after the update
GradientRow(g, pt, phi, z) ==
    [d \in DOMAIN pt |->
        DSub(g[d], DDiv(DSub(DMul(pt[d], phi[1]), phi[d + 1]), z))]

CallInit ==
    /\ call_dims \in {1, 2}
    /\ call_embedding \in {ToFixedPoints(e) : e \in CallEmbeddingInputs(call_dims)}
    /\ call_gradient = [i \in CallPoints |-> [d \in CallAxes |-> 0]]
    /\ \E p \in CallParameterInputs :
         n_interpolation_points = p[1] /\ min_num_intervals = p[2]
    /\ call_pc = "scan"
    /\ coord_min = INFINITY /\ coord_max = -INFINITY
    /\ n_boxes = 0 /\ box_width = 0
    /\ call_kernel = <<>>
    /\ point_box_ptr = "unset" /\ point_box_idx = <<>> /\ call_fault = "none"
    /\ interpolated_values = <<>> /\ w_coefficients = <<>>
    /\ y_tilde_values = <<>> /\ potentials = <<>>
    /\ z_sum = 0 /\ call_ret = <<>>
    /\ agg_idx = <<>> /\ pot_idx = <<>>
    /\ FftIdle
    /\ PerpIdle
    /\ GradIdle
    /\ OptIdle
    /\ ConvIdle

\* lines 299-306 / 464-475: the min/max scan
CallScan ==
    /\ call_pc = "scan"
    /\ LET r == ScanFrom(CoordsInOrder(call_embedding), coord_min, coord_max)
       IN  coord_min' = r[1] /\ coord_max' = r[2]
    /\ call_pc' = "boxes"
    /\ UNCHANGED <<call_dims, call_embedding, call_gradient,
                   n_interpolation_points, min_num_intervals, n_boxes,
                   box_width, call_kernel, point_box_ptr, point_box_idx,
                   call_fault, interpolated_values, w_coefficients,
                   y_tilde_values, potentials, z_sum, call_ret, agg_idx,
                   pot_idx>>
    /\ UNCHANGED notCall

\* lines 308-309 / 477-479: the number of boxes per axis and their width
CallBoxes ==
    /\ call_pc = "boxes"
    /\ \E nb \in NBoxes(coord_min, coord_max, min_num_intervals) :
         /\ n_boxes' = nb
         /\ box_width' = BoxWidth(coord_min, coord_max, nb)
    /\ call_pc' = "kernel"
    /\ UNCHANGED <<call_dims, call_embedding, call_gradient,
                   n_interpolation_points, min_num_intervals, coord_min,
                   coord_max, call_kernel, point_box_ptr, point_box_idx,
                   call_fault, interpolated_values, w_coefficients,
                   y_tilde_values, potentials, z_sum, call_ret, agg_idx,
                   pot_idx>>
    /\ UNCHANGED notCall

\* lines 311-359 / 481-549: the grid, the kernel on the doubled grid and its
\* transform
CallKernel ==
    /\ call_pc = "kernel"
    /\ LET n == NodesPerAxis(n_interpolation_points, n_boxes)
       IN  call_kernel' =
             IF call_dims = 1
             THEN Dft1d(Complexify(KernelTilde1d(
                      KernelValues1d(n, n_interpolation_points, box_width,
                                     coord_min))), 1)
             ELSE DftR2c2d(KernelTilde2d(
                      KernelValues2d(n, n_interpolation_points, box_width,
                                     coord_min)))
    /\ call_pc' = "assign"
    /\ UNCHANGED <<call_dims, call_embedding, call_gradient,
                   n_interpolation_points, min_num_intervals, coord_min,
                   coord_max, n_boxes, box_width, point_box_ptr,
                   point_box_idx, call_fault, interpolated_values,
                   w_coefficients, y_tilde_values, potentials, z_sum,
                   call_ret, agg_idx, pot_idx>>
    /\ UNCHANGED notCall

\* every outcome of the box assignment of all points
BoxAssignments ==
    LET out(i, d) == BoxOutcomes(call_embedding[i][d], coord_min, box_width, n_boxes)
        all == UNION {out(i, d) : i \in CallPoints, d \in CallAxes}
    IN  {f \in [CallPoints -> [CallAxes -> all]] :
            \A i \in CallPoints, d \in CallAxes : f[i][d] \in out(i, d)}

\* lines 361-370 / 551-564: PyMem_Malloc, whose result is not tested, and
\* the box of every point; a NULL result is written through at once
CallAssign ==
    /\ call_pc = "assign"
    /\ \E got \in {"ok", "null"} :
         /\ point_box_ptr' = got
         /\ IF got = "ok"
            THEN /\ point_box_idx' \in BoxAssignments
                 /\ call_pc' = "interp"
                 /\ call_fault' = call_fault
            ELSE /\ point_box_idx' = point_box_idx
                 /\ call_pc' = "crashed"
                 /\ call_fault' = "null_write"
    /\ UNCHANGED <<call_dims, call_embedding, call_gradient,
                   n_interpolation_points, min_num_intervals, coord_min,
                   coord_max, n_boxes, box_width, call_kernel,
                   interpolated_values, w_coefficients, y_tilde_values,
                   potentials, z_sum, call_ret, agg_idx, pot_idx>>
    /\ UNCHANGED notCall

\* lines 372-388 / 566-602: the position of every point in its box, the
\* Lagrange weights and the charges on the grid.  A box index outside
\* 0..n_boxes-1 indexes box_lower_bounds out of bounds (bounds checking is
\* off): the process dies.
CallInterpolate ==
    /\ call_pc = "interp"
    /\ IF \A i \in CallPoints, d \in CallAxes : ValidBox(point_box_idx[i][d], n_boxes)
       THEN LET sp == YTildeSpacing(n_interpolation_points)
                iv == [i \in CallPoints |-> [d \in CallAxes |->
                          interpolate(InBox(call_embedding[i][d],
                                            point_box_idx[i][d], box_width,
                                            coord_min), sp)]]
            IN  /\ interpolated_values' = iv
                /\ w_coefficients' =
                       Aggregate(CallN, call_embedding, point_box_idx, iv,
                                 call_dims, n_interpolation_points, n_boxes)
                /\ agg_idx' = [i \in CallPoints |->
                       GridIndices(point_box_idx[i], call_dims,
                                   n_interpolation_points, n_boxes)]
                /\ call_pc' = "conv"
                /\ call_fault' = call_fault
       ELSE /\ call_fault' = "out_of_bounds"
            /\ call_pc' = "crashed"
            /\ UNCHANGED <<interpolated_values, w_coefficients, agg_idx>>
    /\ UNCHANGED <<call_dims, call_embedding, call_gradient,
                   n_interpolation_points, min_num_intervals, coord_min,
                   coord_max, n_boxes, box_width, call_kernel, point_box_ptr,
                   point_box_idx, y_tilde_values, potentials, z_sum, call_ret,
                   pot_idx>>
    /\ UNCHANGED notCall

\* lines 390-432 / 604-654: every term convolved with the kernel
CallConvolve ==
    /\ call_pc = "conv"
    /\ y_tilde_values' = Convolved(w_coefficients, call_kernel, call_dims,
                                   n_interpolation_points, n_boxes)
    /\ call_pc' = "potentials"
    /\ UNCHANGED <<call_dims, call_embedding, call_gradient,
                   n_interpolation_points, min_num_intervals, coord_min,
                   coord_max, n_boxes, box_width, call_kernel, point_box_ptr,
                   point_box_idx, call_fault, interpolated_values,
                   w_coefficients, potentials, z_sum, call_ret, agg_idx,
                   pot_idx>>
    /\ UNCHANGED notCall

\* lines 434-440 / 656-672: the potentials interpolated back to the points
CallPotentials ==
    /\ call_pc = "potentials"
    /\ potentials' = [i \in CallPoints |->
           PotentialsOf(point_box_idx[i], interpolated_values[i],
                        y_tilde_values, call_dims, n_interpolation_points,
                        n_boxes)]
    /\ pot_idx' = [i \in CallPoints |->
           GridIndices(point_box_idx[i], call_dims, n_interpolation_points,
                       n_boxes)]
    /\ call_pc' = "gradient"
    /\ UNCHANGED <<call_dims, call_embedding, call_gradient,
                   n_interpolation_points, min_num_intervals, coord_min,
                   coord_max, n_boxes, box_width, call_kernel, point_box_ptr,
                   point_box_idx, call_fault, interpolated_values,
                   w_coefficients, y_tilde_values, z_sum, call_ret, agg_idx>>
    /\ UNCHANGED notCall

\* lines 442-454 / 674-690: z_sum, the gradient and the return; nothing
\* releases point_box_idx
CallGradient ==
    /\ call_pc = "gradient"
    /\ z_sum' = ZSum(call_embedding, potentials)
    /\ call_gradient' = [i \in CallPoints |->
           GradientRow(call_gradient[i], call_embedding[i], potentials[i], z_sum')]
    /\ call_ret' = <<z_sum'>>
    /\ call_pc' = "returned"
    /\ UNCHANGED <<call_dims, call_embedding, n_interpolation_points,
                   min_num_intervals, coord_min, coord_max, n_boxes,
                   box_width, call_kernel, point_box_ptr, point_box_idx,
                   call_fault, interpolated_values, w_coefficients,
                   y_tilde_values, potentials, agg_idx, pot_idx>>
    /\ UNCHANGED notCall

CallNext ==
    \/ CallScan
    \/ CallBoxes
    \/ CallKernel
    \/ CallAssign
    \/ CallInterpolate
    \/ CallConvolve
    \/ CallPotentials
    \/ CallGradient

SpecCall == CallInit /\ [][CallNext]_vars

(***************************************************************************)
(* The gradient kernels together: one iteration's kernels on a gradient    *)
(* buffer (SpecGrad), or one call of an FFT kernel (SpecCall).             *)
(***************************************************************************)
KernelsInit == GradInit \/ CallInit

KernelsNext == GradNext \/ CallNext

SpecKernels == KernelsInit /\ [][KernelsNext]_vars

(***************************************************************************)
(* C12 as stated: with a single point, every kernel called on a zeroed     *)
(* gradient returns and leaves the gradient of that point exactly zero     *)
(* (and finite): the positive kernel, the Barnes-Hut kernel and the two    *)
(* FFT kernels.                                                            *)
(***************************************************************************)
C12_SinglePointUnchanged ==
    /\ (NPoints = 1 /\ grad_pc = "idle") => gradient = <<ZeroVector>>
    /\ (CallN = 1 /\ call_pc = "crashed") => call_fault = "null_write"
    /\ (CallN = 1 /\ call_pc = "returned") =>
           \A d \in CallAxes : IsFinite(call_gradient[1][d]) /\ call_gradient[1][d] = 0

(***************************************************************************)
(* C13: no step of a gradient kernel (positive, Barnes-Hut, FFT 1-D and    *)
(* 2-D) changes the embedding, the reference embedding, the sparse P       *)
(* arrays or the quadtree: of the caller's arrays only the gradient is     *)
(* written, so the reference embedding of transform stays as it was.       *)
(***************************************************************************)
C13_KernelsWriteGradientOnly ==
    [][/\ embedding' = embedding
       /\ reference_embedding' = reference_embedding
       /\ indices' = indices /\ indptr' = indptr /\ P_data' = P_data
       /\ tree' = tree
       /\ call_embedding' = call_embedding]_vars

\* both kernels have run against a reference embedding that is not the
\* embedding, and the gradient has been written
C13_Witness ==
    /\ grad_pc = "idle" /\ Len(calls) = 2
    /\ reference_embedding # embedding
    /\ reference_embedding = ToFixedPoints(<<<<1>>, <<3>>>>)
    /\ embedding = ToFixedPoints(<<<<0>>, <<2>>>>)
    /\ gradient # [i \in 1..NPoints |-> ZeroVector]

(***************************************************************************)
(* The optimizer loop, spec section 4.6 "Per-iteration step": ten steps    *)
(* per iteration, the callbacks being the last.  What the steps compute is *)
(* the subject of the kernels above; here only their order and number are  *)
(* kept, as histories.                                                     *)
(***************************************************************************)
MaxOptIter == 4        \* n_iter ranges over 1..MaxOptIter
MaxCallbacks == 2      \* 0..MaxCallbacks callbacks are passed
MaxEvery == 2          \* callbacks_every_iters ranges over 1..MaxEvery

\* what step 10 would be were the callbacks dispatched in every iteration
DispatchEveryIteration(it) == callbacks > 0

\* step 10: "Dispatch callbacks every callbacks_every_iters"
ShouldDispatch(it) == callbacks > 0 /\ it % callbacks_every_iters = 0

\* "if any callback returns the stop signal, halt"
AnyStop(answers) == \E c \in DOMAIN answers : answers[c]

OptInit ==
    /\ negative_gradient_method \in {"bh", "fft"}
    /\ n_iter \in 1..MaxOptIter
    /\ callbacks \in 0..MaxCallbacks
    /\ callbacks_every_iters \in 1..MaxEvery
    /\ opt_pc = "zero" /\ opt_iteration = 1
    /\ opt_trees = 0 /\ opt_negative = 0 /\ opt_positive = 0
    /\ opt_updates = 0 /\ opt_recenters = 0
    /\ opt_dispatches = <<>> /\ iteration_count = <<>>
    /\ FftIdle
    /\ PerpIdle
    /\ GradIdle
    /\ CallIdle
    /\ ConvIdle

\* a step that only hands over to the next one
OptStep(from, to) ==
    /\ opt_pc = from
    /\ opt_pc' = to
    /\ UNCHANGED <<negative_gradient_method, n_iter, callbacks,
                   callbacks_every_iters, opt_iteration, opt_dispatches,
                   iteration_count>>
    /\ UNCHANGED notOpt

\* step 1: zero gradient
OptZero ==
    /\ OptStep("zero", "tree")
    /\ UNCHANGED <<opt_trees, opt_negative, opt_positive, opt_updates,
                   opt_recenters>>

\* step 2: build quadtree (Barnes-Hut) or skip (FFT)
OptTree ==
    /\ OptStep("tree", "negative")
    /\ opt_trees' = IF negative_gradient_method = "bh" THEN opt_trees + 1
                    ELSE opt_trees
    /\ UNCHANGED <<opt_negative, opt_positive, opt_updates, opt_recenters>>

\* step 3: compute negative gradient
OptNegative ==
    /\ OptStep("negative", "positive")
    /\ opt_negative' = opt_negative + 1
    /\ UNCHANGED <<opt_trees, opt_positive, opt_updates, opt_recenters>>

\* step 4: compute positive gradient
OptPositive ==
    /\ OptStep("positive", "scale")
    /\ opt_positive' = opt_positive + 1
    /\ UNCHANGED <<opt_trees, opt_negative, opt_updates, opt_recenters>>

\* step 5: scale gradient by 4
OptScale ==
    /\ OptStep("scale", "gains")
    /\ UNCHANGED <<opt_trees, opt_negative, opt_positive, opt_updates,
                   opt_recenters>>

\* step 6: per-coordinate gain update
OptGains ==
    /\ OptStep("gains", "vector")
    /\ UNCHANGED <<opt_trees, opt_negative, opt_positive, opt_updates,
                   opt_recenters>>

\* step 7: update vector
OptVector ==
    /\ OptStep("vector", "embedding")
    /\ UNCHANGED <<opt_trees, opt_negative, opt_positive, opt_updates,
                   opt_recenters>>

\* step 8: embedding y <- y + u
OptEmbedding ==
    /\ OptStep("embedding", "recenter")
    /\ opt_updates' = opt_updates + 1
    /\ UNCHANGED <<opt_trees, opt_negative, opt_positive, opt_recenters>>

\* step 9: recenter
OptRecenter ==
    /\ OptStep("recenter", "callbacks")
    /\ opt_recenters' = opt_recenters + 1
    /\ UNCHANGED <<opt_trees, opt_negative, opt_positive, opt_updates>>

\* the loop goes on to the next iteration, or ends after the last one
OptContinue ==
    IF opt_iteration = n_iter
    THEN /\ opt_pc' = "done"
         /\ iteration_count' = <<opt_iteration>>
         /\ UNCHANGED opt_iteration
    ELSE /\ opt_pc' = "zero"
         /\ opt_iteration' = opt_iteration + 1
         /\ UNCHANGED iteration_count

\* step 10: the callbacks are called with (iteration, error, embedding);
\* if any of them returns the stop signal, halt
OptDispatch ==
    /\ opt_pc = "callbacks"
    /\ ShouldDispatch(opt_iteration)
    /\ \E answers \in [1..callbacks -> BOOLEAN] :
         /\ opt_dispatches' = Append(opt_dispatches,
                [iteration |-> opt_iteration, negative |-> opt_negative,
                 positive |-> opt_positive, updates |-> opt_updates,
                 recenters |-> opt_recenters, stop |-> AnyStop(answers)])
         /\ IF AnyStop(answers)
            THEN /\ opt_pc' = "halted"
                 /\ iteration_count' = <<opt_iteration>>
                 /\ UNCHANGED opt_iteration
            ELSE OptContinue
    /\ UNCHANGED <<negative_gradient_method, n_iter, callbacks,
                   callbacks_every_iters, opt_trees, opt_negative,
                   opt_positive, opt_updates, opt_recenters>>
    /\ UNCHANGED notOpt

\* step 10 in an iteration that is no multiple of callbacks_every_iters
OptNoDispatch ==
    /\ opt_pc = "callbacks"
    /\ ~ShouldDispatch(opt_iteration)
    /\ OptContinue
    /\ UNCHANGED <<negative_gradient_method, n_iter, callbacks,
                   callbacks_every_iters, opt_trees, opt_negative,
                   opt_positive, opt_updates, opt_recenters, opt_dispatches>>
    /\ UNCHANGED notOpt

OptNext ==
    \/ OptZero
    \/ OptTree
    \/ OptNegative
    \/ OptPositive
    \/ OptScale
    \/ OptGains
    \/ OptVector
    \/ OptEmbedding
    \/ OptRecenter
    \/ OptDispatch
    \/ OptNoDispatch

SpecOpt == OptInit /\ [][OptNext]_vars

(***************************************************************************)
(* C14: the n-th dispatch of the callbacks happens in iteration            *)
(* n * callbacks_every_iters, no iteration that is due is passed over, and *)
(* the callbacks see that iteration's embedding update and recentering     *)
(* done; a stop signal is the last dispatch, and the loop that halted in   *)
(* iteration k ends with iteration count k, having computed k gradients    *)
(* and made k embedding updates, and none after.                           *)
(***************************************************************************)
C14_CallbacksAtIterationBoundaries ==
    /\ \A n \in DOMAIN opt_dispatches :
         LET d == opt_dispatches[n]
         IN  /\ d.iteration = n * callbacks_every_iters
             /\ d.negative = d.iteration /\ d.positive = d.iteration
             /\ d.updates = d.iteration /\ d.recenters = d.iteration
             /\ d.stop => n = Len(opt_dispatches)
    /\ (callbacks > 0 /\ opt_pc \notin {"off", "callbacks", "done", "halted"}) =>
           Len(opt_dispatches) = (opt_iteration - 1) \div callbacks_every_iters
    /\ (callbacks > 0 /\ opt_pc = "done") =>
           Len(opt_dispatches) = n_iter \div callbacks_every_iters
    /\ opt_pc = "done" => iteration_count = <<n_iter>>
    /\ opt_pc = "halted" =>
           LET k == opt_dispatches[Len(opt_dispatches)].iteration
           IN  /\ opt_dispatches[Len(opt_dispatches)].stop
               /\ iteration_count = <<k>>
               /\ opt_iteration = k
               /\ opt_negative = k /\ opt_positive = k
               /\ opt_updates = k /\ opt_recenters = k

\* a callback stops the loop in iteration 2 with iterations still to go
C14_Witness ==
    /\ opt_pc = "halted" /\ iteration_count = <<2>>
    /\ n_iter > 2 /\ callbacks_every_iters = 2
    /\ Len(opt_dispatches) = 1

(***************************************************************************)
(* The Barnes-Hut rule, as a property of one call of                       *)
(* estimate_negative_gradient by worker i: the node comes off the stack,   *)
(* and it is passed over, used as a summary, or replaced by its children.  *)
(***************************************************************************)
SquaredDistance(node, point) ==
    SeqSum([d \in DOMAIN point |->
               Mul(node.center_of_mass[d] - point[d],
                   node.center_of_mass[d] - point[d])])

ContributesNothing(node, point) ==
    node.num_points = 0 \/ (node.is_leaf /\ is_duplicate(node, point))

\* length / sqrt(squared distance) < theta; a quotient by zero is not below
\* any theta
RatioBelowTheta(node, squared) ==
    squared > 0 /\ Div(node.length, Sqrt(squared)) < theta

\* what a call does, given whether the node may stand for its points
VisitFollowsRule(i, summary) ==
    LET path == Head(bh_stack[i])
        rest == Tail(bh_stack[i])
        node == NodeAt(tree, path)
        point == embedding[i]
        q == StudentT(dof, SquaredDistance(node, point) + EPSILON)
    IN  IF ContributesNothing(node, point)
        THEN /\ bh_stack'[i] = rest
             /\ sum_Qi'[i] = sum_Qi[i] /\ gradient'[i] = gradient[i]
        ELSE IF summary
        THEN /\ bh_stack'[i] = rest
             /\ sum_Qi'[i] = sum_Qi[i] + node.num_points * q
             /\ \A d \in Dims :
                  gradient'[i][d] = gradient[i][d]
                      - Mul(node.num_points * Mul(q, q),
                            point[d] - node.center_of_mass[d])
        ELSE /\ Len(node.children) = Pow2(n_dims)
             /\ bh_stack'[i] =
                    [c \in 1..Pow2(n_dims) |-> path \o <<c>>] \o rest
             /\ sum_Qi'[i] = sum_Qi[i] /\ gradient'[i] = gradient[i]

Visits(i) ==
    /\ grad_pc = "bh" /\ grad_pc' = "bh"
    /\ bh_state[i] = "run" /\ bh_stack'[i] # bh_stack[i]

(***************************************************************************)
(* C15: a call of estimate_negative_gradient passes over an empty node and *)
(* a leaf that coincides with the query point; any other node is used as a *)
(* single summary exactly when it is a leaf or                             *)
(* length / sqrt(squared distance + EPSILON) < theta, the squared distance *)
(* being the one the code accumulates from EPSILON; otherwise its          *)
(* 2^n_dims children are visited.  With theta = 0 only leaves contribute.  *)
(***************************************************************************)
C15_SummaryRuleWithEpsilon ==
    [][\A i \in 1..NPoints : Visits(i) =>
          LET node == NodeAt(tree, Head(bh_stack[i]))
              point == embedding[i]
          IN  /\ VisitFollowsRule(i,
                     \/ node.is_leaf
                     \/ RatioBelowTheta(node,
                            SquaredDistance(node, point) + EPSILON))
              /\ (theta = 0 /\ ~node.is_leaf) =>
                     sum_Qi'[i] = sum_Qi[i] /\ gradient'[i] = gradient[i]]_vars

\* an internal node has been used as a summary, a leaf too, and a node has
\* been replaced by its children
C15_Witness ==
    /\ grad_pc = "bh" /\ theta > 0
    /\ \E i \in 1..NPoints :
         /\ bh_state[i] = "done" /\ sum_Qi[i] > 0
         /\ ~tree.is_leaf
         /\ RatioBelowTheta(tree, SquaredDistance(tree, embedding[i]) + EPSILON)
    /\ \E i \in 1..NPoints :
         /\ bh_state[i] = "done" /\ sum_Qi[i] > 0
         /\ ~tree.is_leaf
         /\ ~RatioBelowTheta(tree, SquaredDistance(tree, embedding[i]) + EPSILON)

\* C15 as stated, the rule being length / sqrt(squared distance) < theta
C15_SummaryRule ==
    [][\A i \in 1..NPoints : Visits(i) =>
          LET node == NodeAt(tree, Head(bh_stack[i]))
              point == embedding[i]
          IN  /\ VisitFollowsRule(i,
                     \/ node.is_leaf
                     \/ RatioBelowTheta(node, SquaredDistance(node, point)))
              /\ (theta = 0 /\ ~node.is_leaf) =>
                     sum_Qi'[i] = sum_Qi[i] /\ gradient'[i] = gradient[i]]_vars

(***************************************************************************)
(* The binary search of a row, as a property of one update of beta by      *)
(* thread t (lines 90-101): H is the entropy just computed.                *)
(***************************************************************************)
Updates(t) ==
    /\ perp_pc[t] = "test"
    /\ iteration'[t] = iteration[t] + 1

UpdateFollowsRule(t) ==
    LET i == perp_row[t]
        s == PrivateSlot(t)
        H == entropy'[s]
        target == Log(desired_perplexity)
    IN  /\ min_beta'[s] >= min_beta[s] /\ max_beta'[s] <= max_beta[s]
        /\ H > target =>
              /\ min_beta'[s] = beta[i] /\ max_beta'[s] = max_beta[s]
              /\ beta'[i] = IF max_beta[s] = INFINITY THEN 2 * beta[i]
                            ELSE (beta[i] + max_beta[s]) \div 2
        /\ H < target =>
              /\ max_beta'[s] = beta[i] /\ min_beta'[s] = min_beta[s]
              /\ beta'[i] = IF min_beta[s] = -INFINITY THEN beta[i] \div 2
                            ELSE (beta[i] + min_beta[s]) \div 2

(***************************************************************************)
(* C16: every update of the binary search leaves beta positive unless     *)
(* beta was the smallest positive number and its half underflows, sets the *)
(* lower (upper) bound to the old beta when H is above (below) the target  *)
(* and moves beta by doubling (halving) or to the midpoint with the known  *)
(* other bound; afterwards min_beta <= beta <= max_beta, min_beta has not  *)
(* decreased and max_beta has not increased.                               *)
(***************************************************************************)
C16_BracketTightens ==
    [][\A t \in Threads : Updates(t) =>
          /\ UpdateFollowsRule(t)
          /\ beta[perp_row[t]] > EPSILON => beta'[perp_row[t]] > 0
          /\ min_beta'[PrivateSlot(t)] <= beta'[perp_row[t]]
          /\ beta'[perp_row[t]] <= max_beta'[PrivateSlot(t)]]_vars

\* an update has moved beta to a midpoint that is one of the two bounds
C16_Witness ==
    \E t \in Threads :
        /\ perp_pc[t] = "eval" /\ iteration[t] >= 3
        /\ min_beta[PrivateSlot(t)] > -INFINITY
        /\ max_beta[PrivateSlot(t)] < INFINITY
        /\ \/ beta[perp_row[t]] = min_beta[PrivateSlot(t)]
           \/ beta[perp_row[t]] = max_beta[PrivateSlot(t)]

\* C16 as stated: after every update min_beta < beta < max_beta
C16_BracketStrict ==
    [][\A t \in Threads : Updates(t) =>
          /\ UpdateFollowsRule(t)
          /\ beta'[perp_row[t]] > 0
          /\ min_beta'[PrivateSlot(t)] < beta'[perp_row[t]]
          /\ beta'[perp_row[t]] < max_beta'[PrivateSlot(t)]]_vars

(***************************************************************************)
(* Step 2 of the FFT kernels for one term, on exact numbers: the kernel    *)
(* values are those of the grid, the charges are integers, and products    *)
(* and the normalisation are not rounded, so that what the doubled grid    *)
(* computes can be compared with the sum it stands for.                    *)
(***************************************************************************)
MaxCharge == 1         \* a charge ranges over -MaxCharge..MaxCharge
\* <<n_interpolation_points, boxes per axis, box_width>>
ConvInputs ==
    { <<1, 1, SCALE>>, <<1, 2, SCALE>>, <<2, 1, 2 * SCALE>> }

ConvNodes == NodesPerAxis(conv_nip, conv_boxes)

ConvInit ==
    /\ conv_dims \in {1, 2}
    /\ \E p \in ConvInputs :
         conv_nip = p[1] /\ conv_boxes = p[2] /\ conv_width = p[3]
    /\ conv_w \in [1..TotalPoints(conv_dims, conv_nip, conv_boxes) ->
                      (-MaxCharge)..MaxCharge]
    /\ conv_pc = "kernel"
    /\ conv_fft_kernel = <<>> /\ conv_values = <<>>
    /\ FftIdle
    /\ PerpIdle
    /\ GradIdle
    /\ CallIdle
    /\ OptIdle

\* lines 341-359 / 527-549: the kernel on the doubled grid and its transform
ConvKernel ==
    /\ conv_pc = "kernel"
    /\ conv_fft_kernel' =
           IF conv_dims = 1
           THEN Dft1d(Complexify(KernelTilde1d(
                    KernelValues1d(ConvNodes, conv_nip, conv_width, 0))), 1)
           ELSE DftR2c2d(KernelTilde2d(
                    KernelValues2d(ConvNodes, conv_nip, conv_width, 0)))
    /\ conv_pc' = "convolve"
    /\ UNCHANGED <<conv_dims, conv_nip, conv_boxes, conv_width, conv_w,
                   conv_values>>
    /\ UNCHANGED notConv

\* lines 390-429 / 622-651 for one term
ConvConvolve ==
    /\ conv_pc = "convolve"
    /\ conv_values' =
           IF conv_dims = 1
           THEN Convolve1d(conv_w, conv_fft_kernel, ChargeOffset(1, ConvNodes),
                           ReadOffset(1, ConvNodes), TRUE)
           ELSE Convolve2d(conv_w, conv_fft_kernel, ConvNodes,
                           ChargeOffset(2, ConvNodes), ReadOffset(2, ConvNodes),
                           TRUE)
    /\ conv_pc' = "done"
    /\ UNCHANGED <<conv_dims, conv_nip, conv_boxes, conv_width, conv_w,
                   conv_fft_kernel>>
    /\ UNCHANGED notConv

ConvNext ==
    \/ ConvKernel
    \/ ConvConvolve

SpecConv == ConvInit /\ [][ConvNext]_vars

\* K(node_m - node_k), from the positions of the two nodes (g, h from 1)
KernelBetween(g, h) ==
    LET y(i) == YTilde(i, conv_nip, conv_width, 0)
        n == ConvNodes
    IN  IF conv_dims = 1
        THEN cauchy_1d(y(g - 1), y(h - 1))
        ELSE cauchy_2d(y((g - 1) \div n), y((g - 1) % n),
                       y((h - 1) \div n), y((h - 1) % n))

(***************************************************************************)
(* C17: in both FFT kernels the value read back for grid node m after the  *)
(* forward transform, the pointwise product, the inverse transform and the *)
(* normalisation is the sum over all nodes k of K(node_m - node_k) * w_k:  *)
(* the linear convolution, with nothing wrapped around.                    *)
(***************************************************************************)
C17_LinearConvolution ==
    conv_pc = "done" =>
        \A m \in DOMAIN conv_w :
            conv_values[m] =
                SeqSum([k \in DOMAIN conv_w |-> KernelBetween(m, k) * conv_w[k]])

\* a 2 x 2 grid with charges of both signs on all nodes has been convolved
C17_Witness ==
    /\ conv_pc = "done" /\ conv_dims = 2 /\ ConvNodes = 2
    /\ \A k \in DOMAIN conv_w : conv_w[k] # 0
    /\ \E k \in DOMAIN conv_w : conv_w[k] < 0
    /\ \E k \in DOMAIN conv_w : conv_w[k] > 0
    /\ \E m \in DOMAIN conv_w : conv_values[m] # 0

\* the coordinates of the embedding handed to the FFT kernel are not all equal
CoordinatesDiffer ==
    LET cs == CoordsInOrder(call_embedding)
    IN  \E a, b \in DOMAIN cs : cs[a] # cs[b]

(***************************************************************************)
(* C18: in a call of an FFT kernel on an embedding whose coordinates are   *)
(* not all equal, every point's box index lies in 0..n_boxes-1 on every    *)
(* axis, every grid index used to aggregate the charges lies in            *)
(* 0..total_interpolation_points-1, and the potentials are read back at    *)
(* the grid indices the aggregation used.                                  *)
(***************************************************************************)
C18_BoxAndGridIndicesInRange ==
    (call_pc # "off" /\ CoordinatesDiffer) =>
        /\ call_fault # "out_of_bounds"
        /\ \A i \in DOMAIN point_box_idx, d \in CallAxes :
               ValidBox(point_box_idx[i][d], n_boxes)
        /\ \A i \in DOMAIN agg_idx : \A q \in DOMAIN agg_idx[i] :
               /\ agg_idx[i][q] >= 0
               /\ agg_idx[i][q] < TotalPoints(call_dims, n_interpolation_points,
                                              n_boxes)
        /\ pot_idx # <<>> => pot_idx = agg_idx

(***************************************************************************)
(* C19: when a kernel has returned, no buffer it allocated by hand is      *)
(* live: the scratch vectors of compute_positive_gradients, the            *)
(* partial-sum array of compute_negative_gradients_bh and the point-to-box *)
(* index array of the FFT kernels have been released.                      *)
(***************************************************************************)
C19_BuffersReleasedOnReturn ==
    /\ (grad_pc = "idle" /\ calls # <<>>) =>
           /\ sum_Qi_ptr # "ok"
           /\ \A t \in DOMAIN diff_ptr : diff_ptr[t] # "ok"
    /\ call_pc = "returned" => point_box_ptr # "ok"

====
